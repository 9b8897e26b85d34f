--------------------------- MODULE Update_proofs ---------------------------
(***************************************************************************)
(* What Update keeps for all hooks, versions and depths: FirmwareInv is    *)
(* inductive. The stack of calls is handled first, by a lemma per way a    *)
(* step may change it, and then each action.                               *)
(***************************************************************************)
EXTENDS Update, TLAPS

\* The conjuncts about the stack and what it hands on.
CallsInv ==
  /\ calls \in Seq(Call)
  /\ ProbeNeverNests
  /\ AnswersWereSent
  /\ reply \in Response

LEMMA IOErrorIsResponse == IOError \in Response /\ IOError.payload = None
  BY DEF IOError, Response

\* A new call of anyone starts in begin(), without an answer.
LEMMA NewCallType ==
  ASSUME NEW who \in {"app", "update", "probe"}
  PROVE  /\ NewCall(who) \in Call
         /\ NewCall(who).by = who
         /\ NewCall(who).at = "begin"
         /\ NewCall(who).answer.payload = None
  BY IOErrorIsResponse DEF NewCall, Call, AnyHook

\* All but the last call.
LEMMA FrontOfCalls ==
  ASSUME NEW s \in Seq(Call), s # <<>>
  PROVE  /\ Front(s) \in Seq(Call)
         /\ Len(Front(s)) = Len(s) - 1
         /\ DOMAIN Front(s) = 1..(Len(s) - 1)
         /\ \A i \in 1..(Len(s) - 1): Front(s)[i] = s[i]
         /\ Last(s) \in Call
         /\ Last(s) = s[Len(s)]
         /\ Len(s) \in Nat \ {0}
<1>1. Len(s) \in Nat \ {0} /\ DOMAIN s = 1..Len(s) /\ \A i \in 1..Len(s): s[i] \in Call
  OBVIOUS
<1>2. /\ SubSeq(s, 1, Len(s) - 1) \in Seq(Call)
      /\ Len(SubSeq(s, 1, Len(s) - 1)) = Len(s) - 1
      /\ \A i \in 1..(Len(s) - 1): SubSeq(s, 1, Len(s) - 1)[i] = s[i]
  BY <1>1
<1>3. DOMAIN SubSeq(s, 1, Len(s) - 1) = 1..(Len(s) - 1)
  BY <1>2
<1> QED BY <1>1, <1>2, <1>3 DEF Front, Last

\* A request is called when no probe is under way.
LEMMA CallPushed ==
  ASSUME CallsInv, AppRuns, NEW who \in {"app", "update"},
         calls' = Append(calls, NewCall(who)),
         UNCHANGED <<probed, reply, sent>>
  PROVE  CallsInv'
<1> DEFINE c == NewCall(who)
<1>1. /\ c \in Call /\ c.by = who /\ c.at = "begin" /\ c.answer.payload = None
  BY NewCallType
<1>2. \A i \in DOMAIN calls: calls[i].by # "probe"
  BY DEF CallsInv, ProbeNeverNests, AppRuns, At, Top, Last
<1>3. /\ calls' \in Seq(Call)
      /\ Len(calls') = Len(calls) + 1
      /\ DOMAIN calls' = 1..(Len(calls) + 1)
      /\ calls'[Len(calls) + 1] = c
      /\ \A i \in 1..Len(calls): calls'[i] = calls[i]
      /\ DOMAIN calls = 1..Len(calls)
  BY <1>1 DEF CallsInv
<1>4. \A i \in DOMAIN calls': calls'[i].by # "probe" /\ calls'[i].answer.payload \in sent \cup {None}
  <2> SUFFICES ASSUME NEW i \in 1..(Len(calls) + 1)
               PROVE  calls'[i].by # "probe" /\ calls'[i].answer.payload \in sent \cup {None}
    BY <1>3
  <2>1. CASE i \in 1..Len(calls)
    BY <2>1, <1>2, <1>3 DEF CallsInv, AnswersWereSent
  <2>2. CASE i = Len(calls) + 1
    BY <2>2, <1>1, <1>3
  <2> QED BY <2>1, <2>2, <1>3 DEF CallsInv
<1> QED BY <1>3, <1>4 DEF CallsInv, ProbeNeverNests, AnswersWereSent

\* A probe is called when none was before.
LEMMA ProbePushed ==
  ASSUME CallsInv, ~probed, Probe, UNCHANGED <<reply, sent>>
  PROVE  CallsInv'
<1> DEFINE c == NewCall("probe")
<1>1. /\ c \in Call /\ c.by = "probe" /\ c.at = "begin" /\ c.answer.payload = None
  BY NewCallType
<1>2. \A i \in DOMAIN calls: calls[i].by # "probe"
  BY DEF CallsInv, ProbeNeverNests
<1>3. /\ calls' \in Seq(Call)
      /\ Len(calls') = Len(calls) + 1
      /\ DOMAIN calls' = 1..(Len(calls) + 1)
      /\ calls'[Len(calls) + 1] = c
      /\ \A i \in 1..Len(calls): calls'[i] = calls[i]
      /\ DOMAIN calls = 1..Len(calls)
      /\ Len(calls) \in Nat
  BY <1>1 DEF CallsInv, Probe
<1>4. \A i \in DOMAIN calls':
        /\ calls'[i].by = "probe" => i = Len(calls')
        /\ calls'[i].by = "probe" => calls'[i].at = "begin"
        /\ calls'[i].answer.payload \in sent \cup {None}
  <2> SUFFICES ASSUME NEW i \in 1..(Len(calls) + 1)
               PROVE  /\ calls'[i].by = "probe" => i = Len(calls')
                      /\ calls'[i].by = "probe" => calls'[i].at = "begin"
                      /\ calls'[i].answer.payload \in sent \cup {None}
    BY <1>3
  <2>1. CASE i \in 1..Len(calls)
    BY <2>1, <1>2, <1>3 DEF CallsInv, AnswersWereSent
  <2>2. CASE i = Len(calls) + 1
    BY <2>2, <1>1, <1>3
  <2> QED BY <2>1, <2>2, <1>3
<1>5. probed' /\ reply' = reply /\ sent' = sent
  BY DEF Probe
<1>6. ProbeNeverNests'
  BY <1>4, <1>5 DEF ProbeNeverNests
<1>7. AnswersWereSent'
  BY <1>4, <1>5 DEF CallsInv, AnswersWereSent
<1> QED BY <1>3, <1>5, <1>6, <1>7 DEF CallsInv

\* The innermost call goes on: another place, and for others than the probe
\* perhaps an answer.
LEMMA CallContinued ==
  ASSUME CallsInv, calls # <<>>, NEW c \in Call, Continue(c),
         c.by = Top.by, c.by = "probe" => c.at \in {"begin", "sent"},
         c.answer.payload \in sent' \cup {None}, sent \subseteq sent',
         UNCHANGED <<probed, reply>>
  PROVE  CallsInv'
<1> DEFINE n == Len(calls)
<1>1. /\ calls \in Seq(Call) /\ n \in Nat \ {0} /\ DOMAIN calls = 1..n
      /\ Top = calls[n]
  BY FrontOfCalls DEF CallsInv, Top
<1>2. /\ Front(calls) \in Seq(Call) /\ Len(Front(calls)) = n - 1
      /\ \A i \in 1..(n - 1): Front(calls)[i] = calls[i]
  BY FrontOfCalls DEF CallsInv
<1>3. /\ calls' \in Seq(Call) /\ Len(calls') = n /\ DOMAIN calls' = 1..n
      /\ calls'[n] = c /\ \A i \in 1..(n - 1): calls'[i] = calls[i]
  <2> DEFINE f == Front(calls)
  <2>1. f \in Seq(Call) /\ Len(f) = n - 1 /\ n - 1 \in Nat /\ calls' = Append(f, c)
    BY <1>1, <1>2 DEF Continue
  <2> HIDE DEF f
  <2>2. /\ Append(f, c) \in Seq(Call) /\ Len(Append(f, c)) = Len(f) + 1
        /\ DOMAIN Append(f, c) = 1..(Len(f) + 1)
        /\ Append(f, c)[Len(f) + 1] = c
        /\ \A i \in 1..Len(f): Append(f, c)[i] = f[i]
    BY <2>1
  <2>3. Len(f) + 1 = n
    BY <2>1, <1>1
  <2>4. calls' \in Seq(Call) /\ Len(calls') = n /\ DOMAIN calls' = 1..n /\ calls'[n] = c
    BY <2>1, <2>2, <2>3
  <2>5. \A i \in 1..(n - 1): calls'[i] = calls[i]
    BY <2>1, <2>2, <1>2 DEF f
  <2> QED BY <2>4, <2>5
<1>4. \A i \in 1..n:
        /\ calls'[i].by = calls[i].by
        /\ calls'[i].by = "probe" => calls'[i].at \in {"begin", "sent"}
        /\ calls'[i].answer.payload \in sent' \cup {None}
  <2> SUFFICES ASSUME NEW i \in 1..n
               PROVE  /\ calls'[i].by = calls[i].by
                      /\ calls'[i].by = "probe" => calls'[i].at \in {"begin", "sent"}
                      /\ calls'[i].answer.payload \in sent' \cup {None}
    OBVIOUS
  <2>1. CASE i \in 1..(n - 1)
    BY <2>1, <1>1, <1>3 DEF CallsInv, ProbeNeverNests, AnswersWereSent
  <2>2. CASE i = n
    BY <2>2, <1>1, <1>3
  <2>3. i \in 1..(n - 1) \/ i = n
    <3>1. \A k \in Nat: \A j \in 1..k: j \in 1..(k - 1) \/ j = k
      OBVIOUS
    <3>2. n \in Nat
      BY <1>1
    <3> QED BY <3>1, <3>2
  <2> QED BY <2>1, <2>2, <2>3
<1>5. ProbeNeverNests'
  BY <1>1, <1>3, <1>4 DEF CallsInv, ProbeNeverNests
<1>6. AnswersWereSent'
  BY <1>1, <1>3, <1>4 DEF CallsInv, AnswersWereSent
<1> QED BY <1>3, <1>5, <1>6 DEF CallsInv

\* One call returns, and perhaps the one that waited for it.
LEMMA CallsReturned ==
  ASSUME CallsInv, calls # <<>>, NEW answer \in Response, Return(answer),
         answer.payload \in sent' \cup {None}, sent \subseteq sent'
  PROVE  CallsInv'
<1> DEFINE n == Len(calls)
<1>1. /\ calls \in Seq(Call) /\ n \in Nat \ {0} /\ DOMAIN calls = 1..n
      /\ Front(calls) \in Seq(Call) /\ Len(Front(calls)) = n - 1
      /\ \A i \in 1..(n - 1): Front(calls)[i] = calls[i]
      /\ DOMAIN Front(calls) = 1..(n - 1)
  BY FrontOfCalls DEF CallsInv
<1>2. \/ calls' = Front(calls)
      \/ Front(calls) # <<>> /\ calls' = Front(Front(calls))
  BY DEF Return
<1>3. PICK m \in 0..(n - 1):
        /\ calls' \in Seq(Call) /\ Len(calls') = m /\ DOMAIN calls' = 1..m
        /\ \A i \in 1..m: calls'[i] = calls[i]
  <2>1. CASE calls' = Front(calls)
    <3>1. n - 1 \in 0..(n - 1)
      BY <1>1
    <3> QED BY <3>1, <2>1, <1>1, Zenon
  <2>2. CASE Front(calls) # <<>> /\ calls' = Front(Front(calls))
    <3>1. /\ Front(Front(calls)) \in Seq(Call)
          /\ Len(Front(Front(calls))) = n - 2
          /\ DOMAIN Front(Front(calls)) = 1..(n - 2)
          /\ \A i \in 1..(n - 2): Front(Front(calls))[i] = Front(calls)[i]
      <4> DEFINE f == Front(calls)
      <4>1. f \in Seq(Call) /\ f # <<>> /\ Len(f) = n - 1
        BY <2>2, <1>1
      <4> HIDE DEF f
      <4>2. /\ Front(f) \in Seq(Call) /\ Len(Front(f)) = Len(f) - 1
            /\ DOMAIN Front(f) = 1..(Len(f) - 1)
            /\ \A i \in 1..(Len(f) - 1): Front(f)[i] = f[i]
        BY <4>1, FrontOfCalls
      <4>3. Len(f) - 1 = n - 2
        BY <4>1, <1>1
      <4> QED BY <4>2, <4>3 DEF f
    <3>2. n - 1 \in Nat \ {0}
      BY <2>2, <1>1
    <3>3. n - 2 \in 0..(n - 1)
      <4>1. \A k \in Nat: k - 1 \in Nat \ {0} => k - 2 \in 0..(k - 1)
        OBVIOUS
      <4>2. n \in Nat
        BY <1>1
      <4> QED BY <4>1, <4>2, <3>2
    <3>4. \A i \in 1..(n - 2): i \in 1..(n - 1)
      <4>1. \A k \in Nat: \A i \in 1..(k - 2): i \in 1..(k - 1)
        OBVIOUS
      <4>2. n \in Nat
        BY <1>1
      <4> QED BY <4>1, <4>2
    <3>5. \A i \in 1..(n - 2): Front(Front(calls))[i] = calls[i]
      BY <3>1, <3>4, <1>1
    <3> QED BY <3>1, <3>3, <3>5, <2>2
  <2> QED BY <1>2, <2>1, <2>2, Zenon
<1>4. reply' \in {reply, answer}
  BY DEF Return
<1>5. \A i \in 1..m: calls'[i].by # "probe"
  BY <1>1, <1>3 DEF CallsInv, ProbeNeverNests
<1>6. ProbeNeverNests'
  BY <1>3, <1>5 DEF ProbeNeverNests
<1>7. AnswersWereSent'
  BY <1>1, <1>3, <1>4 DEF CallsInv, AnswersWereSent
<1> QED BY <1>3, <1>4, <1>6, <1>7 DEF CallsInv

-----------------------------------------------------------------------------
\* What Restart, Execute and Stop make of a process's memory.
LEMMA FreshMemory ==
  ASSUME FirmwareInv, MemoryReset, sent' = sent
  PROVE  /\ CallsInv' /\ calls' = <<>> /\ cached' = None
         /\ initialized' \in BOOLEAN /\ probed' \in BOOLEAN
         /\ hook' \in AnyHook /\ given' \in AnyHook
<1>1. calls' = <<>> /\ reply' = IOError
  BY DEF MemoryReset
<1>2. calls' \in Seq(Call) /\ DOMAIN calls' = {}
  BY <1>1
<1>3. ProbeNeverNests' /\ AnswersWereSent'
  BY <1>1, <1>2, IOErrorIsResponse DEF ProbeNeverNests, AnswersWereSent
<1>4. CallsInv'
  BY <1>1, <1>2, <1>3, IOErrorIsResponse DEF CallsInv
<1> QED BY <1>1, <1>4 DEF MemoryReset, AnyHook

LEMMA InvInit == Init => FirmwareInv
<1> SUFFICES ASSUME Init PROVE FirmwareInv
  OBVIOUS
<1>1. Whole(First) \in Binaries /\ None # Whole(First)
  BY BinariesAssumption, FirstAssumption, NoneAssumption DEF Whole
<1>2. calls = <<>> /\ calls \in Seq(Call) /\ DOMAIN calls = {}
  BY DEF Init, NewProcess
<1>3. NetworkTypeOK
  BY <1>1, <1>2, IOErrorIsResponse DEF Init, NewProcess, NetworkTypeOK, AnyHook
<1>4. UpdateTypeOK
  BY <1>1, FirstAssumption DEF Init, UpdateTypeOK
<1>5. ProbeNeverNests /\ AnswersWereSent
  BY <1>2, IOErrorIsResponse DEF ProbeNeverNests, AnswersWereSent, Init, NewProcess
<1>6. RunsWhatIsInstalled /\ Recoverable /\ NothingHalfWritten /\ Replacing
  BY <1>1 DEF RunsWhatIsInstalled, Recoverable, NothingHalfWritten, Replacing, Init, NewProcess
<1> QED BY <1>3, <1>4, <1>5, <1>6 DEF FirmwareInv

\* What the steps of the network leave of the invariant to show: those that
\* change neither a file nor where run() is, and cache no hash but the path's.
LEMMA NetworkOnly ==
  ASSUME FirmwareInv, alive, phase \in {"idle", "fetching"},
         CallsInv', UNCHANGED <<path, tmp, old, image, alive, published>>,
         phase' \in {"idle", "fetching"}, cached' \in {cached, path},
         initialized' \in BOOLEAN, probed' \in BOOLEAN,
         hook' \in AnyHook, given' \in AnyHook,
         sent \subseteq sent', sent' \subseteq Binaries
  PROVE  FirmwareInv'
<1>1. path = image /\ cached \in {None, image} /\ image \in Binaries /\ image # None
  BY NoneAssumption DEF FirmwareInv, RunsWhatIsInstalled, UpdateTypeOK
<1>2. NetworkTypeOK'
  BY <1>1 DEF NetworkTypeOK, CallsInv
<1>3. UpdateTypeOK'
  BY DEF FirmwareInv, UpdateTypeOK
<1>4. RunsWhatIsInstalled'
  BY <1>1 DEF RunsWhatIsInstalled
<1>5. Recoverable' /\ Replacing'
  BY <1>1 DEF Recoverable, Replacing
<1>6. NothingHalfWritten'
  BY DEF FirmwareInv, NothingHalfWritten
<1> QED BY <1>2, <1>3, <1>4, <1>5, <1>6 DEF CallsInv, FirmwareInv

\* The invariant is the two halves, and what the stack's half needs.
LEMMA CallsPart == FirmwareInv => CallsInv
  BY DEF FirmwareInv, CallsInv, NetworkTypeOK

LEMMA NetworkStepInv ==
  ASSUME FirmwareInv, NetworkStep
  PROVE  FirmwareInv'
<1>1. /\ alive /\ phase \in {"idle", "fetching"} /\ phase' = phase /\ tmp' = tmp
      /\ old' = old /\ image' = image /\ alive' = alive /\ published' = published
      /\ sent' = sent
  BY DEF NetworkStep, updateVars
<1>2. /\ CallsInv /\ sent \subseteq Binaries
      /\ initialized \in BOOLEAN /\ probed \in BOOLEAN /\ hook \in AnyHook /\ given \in AnyHook
  BY CallsPart DEF FirmwareInv, NetworkTypeOK, UpdateTypeOK
<1>3. ASSUME NEW h \in Hooks, SetUpdateHook(h) PROVE FirmwareInv'
  <2>1. CallsInv'
    BY <1>1, <1>2, <1>3 DEF SetUpdateHook, CallsInv, ProbeNeverNests, AnswersWereSent
  <2> QED BY <2>1, <1>1, <1>2, <1>3, NetworkOnly DEF SetUpdateHook, AnyHook
<1>4. CASE TakeUpdateHook
  <2>1. CallsInv'
    BY <1>1, <1>2, <1>4 DEF TakeUpdateHook, CallsInv, ProbeNeverNests, AnswersWereSent
  <2> QED BY <2>1, <1>1, <1>2, <1>4, NetworkOnly DEF TakeUpdateHook, AnyHook
<1>5. CASE HttpRequest("app")
  <2>1. CallsInv'
    BY <1>1, <1>2, <1>5, CallPushed DEF HttpRequest
  <2> QED BY <2>1, <1>1, <1>2, <1>5, NetworkOnly DEF HttpRequest
<1>6. CASE IsConnected
  <2>1. CallsInv'
    BY <1>1, <1>2, <1>6, ProbePushed DEF IsConnected
  <2> QED BY <2>1, <1>1, <1>2, <1>6, NetworkOnly DEF IsConnected, Probe
<1>7. CASE BeginProbes
  <2>1. CallsInv'
    BY <1>1, <1>2, <1>7, ProbePushed DEF BeginProbes
  <2> QED BY <2>1, <1>1, <1>2, <1>7, NetworkOnly DEF BeginProbes, Probe
<1>8. CASE BeginConnects
  <2> DEFINE c == [Top EXCEPT !.at = "sent"]
  <2>1. calls # <<>> /\ Top \in Call /\ Top.answer.payload \in sent \cup {None}
    <3>1. calls # <<>> /\ Len(calls) \in DOMAIN calls
      BY <1>2, <1>8 DEF BeginConnects, At, CallsInv
    <3> QED BY <3>1, <1>2 DEF CallsInv, AnswersWereSent, Top, Last
  <2>2. c \in Call /\ c.by = Top.by /\ c.at = "sent" /\ c.answer = Top.answer
    BY <2>1 DEF Call
  <2>3. Continue(c) /\ UNCHANGED <<probed, reply>>
    BY <1>8 DEF BeginConnects
  <2> HIDE DEF c
  <2>4. CallsInv'
    BY <2>1, <2>2, <2>3, <1>1, <1>2, CallContinued
  <2> QED BY <2>4, <1>1, <1>2, <1>8, NetworkOnly DEF BeginConnects, FirmwareMD5
<1>9. CASE Fails
  <2>1. CallsInv'
    BY <1>1, <1>2, <1>9, CallsReturned, IOErrorIsResponse DEF Fails, At
  <2> QED BY <2>1, <1>1, <1>2, <1>9, NetworkOnly DEF Fails, Return
<1>10. CASE HookCalled
  <2> DEFINE c == [Top EXCEPT !.at = "hook", !.called = hook]
  <2>1. calls # <<>> /\ Top \in Call /\ Top.answer.payload \in sent \cup {None} /\ Top.by # "probe"
    <3>1. calls # <<>> /\ Len(calls) \in DOMAIN calls /\ Top.at = "received"
      BY <1>2, <1>10 DEF HookCalled, At, CallsInv
    <3> QED BY <3>1, <1>2 DEF CallsInv, AnswersWereSent, ProbeNeverNests, Top, Last
  <2>2. c \in Call /\ c.by = Top.by /\ c.answer = Top.answer
    BY <2>1, <1>2 DEF Call
  <2>3. Continue(c) /\ UNCHANGED <<probed, reply>>
    BY <1>10 DEF HookCalled
  <2> HIDE DEF c
  <2>4. CallsInv'
    BY <2>1, <2>2, <2>3, <1>1, <1>2, CallContinued
  <2> QED BY <2>4, <1>1, <1>2, <1>10, NetworkOnly DEF HookCalled
<1>11. CASE NoHookCalled \/ HookReturns
  <2>1. calls # <<>> /\ Return(Processed(Top.answer))
    BY <1>11 DEF NoHookCalled, HookReturns, At
  <2>2. Top.answer \in Response /\ Top.answer.payload \in sent \cup {None}
    <3>1. Len(calls) \in DOMAIN calls
      BY <1>2, <2>1 DEF CallsInv
    <3>2. Top \in Call /\ Top.answer.payload \in sent \cup {None}
      BY <3>1, <1>2 DEF CallsInv, AnswersWereSent, Top, Last
    <3> QED BY <3>2 DEF Call
  <2>3. Processed(Top.answer) \in Response /\ Processed(Top.answer).payload \in sent \cup {None}
    BY <2>2 DEF Processed, Response
  <2>4. CallsInv'
    BY <2>1, <2>3, <1>1, <1>2, CallsReturned
  <2> QED BY <2>1, <2>4, <1>1, <1>2, NetworkOnly DEF Return
<1> QED
  BY <1>3, <1>4, <1>5, <1>6, <1>7, <1>8, <1>9, <1>10, <1>11
  DEF NetworkStep, Application, Client

-----------------------------------------------------------------------------
LEMMA ServerAnswersInv ==
  ASSUME FirmwareInv, ServerAnswers
  PROVE  FirmwareInv'
<1>1. PICK answer \in Answers(Top.by):
        Answered(answer) /\ sent' = sent \cup ({answer.payload} \ {None})
  BY DEF ServerAnswers
<1>2. /\ alive /\ calls # <<>> /\ phase' = phase /\ tmp' = tmp
      /\ old' = old /\ image' = image /\ alive' = alive /\ published' = published
  BY DEF ServerAnswers
<1>3. /\ CallsInv /\ sent \subseteq Binaries /\ phase \in {"idle", "fetching"}
      /\ initialized \in BOOLEAN /\ probed \in BOOLEAN /\ hook \in AnyHook /\ given \in AnyHook
  BY <1>2, CallsPart DEF FirmwareInv, NetworkTypeOK, UpdateTypeOK, Replacing
<1>4. Whole(published) \in Binaries /\ Cut(published) \in Binaries
  BY BinariesAssumption DEF FirmwareInv, UpdateTypeOK, Whole, Cut
<1>5. answer \in Response
  BY <1>1, <1>4 DEF Answers, Response
<1>6. /\ answer.payload \in sent' \cup {None} /\ sent \subseteq sent'
      /\ sent' \subseteq Binaries
  <2>1. answer.payload \in Binaries \cup {None}
    BY <1>5 DEF Response
  <2> QED BY <2>1, <1>1, <1>3
<1>7. /\ CallsInv' /\ UNCHANGED <<initialized, probed, hook, given, cached, path>>
  <2>1. CASE Top.by = "probe"
    <3>1. Return(answer)
      BY <2>1, <1>1 DEF Answered
    <3>2. UNCHANGED <<initialized, probed, hook, given, cached, path>>
      BY <3>1 DEF Return
    <3> QED BY <3>1, <3>2, <1>2, <1>3, <1>5, <1>6, CallsReturned
  <2>2. CASE Top.by # "probe"
    <3> DEFINE c == [Top EXCEPT !.at = "received", !.answer = answer]
    <3>1. Top \in Call
      <4>1. Len(calls) \in DOMAIN calls
        BY <1>2, <1>3 DEF CallsInv
      <4> QED BY <4>1, <1>3 DEF CallsInv, Top, Last
    <3>2. c \in Call /\ c.by = Top.by /\ c.answer = answer
      BY <3>1, <1>5 DEF Call
    <3>3. Continue(c) /\ UNCHANGED <<initialized, probed, hook, given, cached, path, reply>>
      BY <2>2, <1>1 DEF Answered
    <3> HIDE DEF c
    <3> QED BY <2>2, <3>2, <3>3, <1>2, <1>3, <1>6, CallContinued
  <2> QED BY <2>1, <2>2
<1> QED BY <1>2, <1>3, <1>6, <1>7, NetworkOnly

LEMMA RunInv ==
  ASSUME FirmwareInv, Run
  PROVE  FirmwareInv'
<1>1. /\ alive /\ phase = "idle" /\ phase' = "fetching" /\ tmp' = tmp /\ old' = old
      /\ image' = image /\ alive' = alive /\ published' = published /\ sent' = sent
      /\ AppRuns /\ calls' = Append(calls, NewCall("update")) /\ initialized' = TRUE
      /\ UNCHANGED <<probed, hook, given, cached, path, reply>>
  BY DEF Run, HttpRequest, AppRuns
<1>2. /\ CallsInv /\ sent \subseteq Binaries
      /\ probed \in BOOLEAN /\ hook \in AnyHook /\ given \in AnyHook
  BY CallsPart DEF FirmwareInv, NetworkTypeOK, UpdateTypeOK
<1>3. CallsInv'
  BY <1>1, <1>2, CallPushed
<1> QED BY <1>1, <1>2, <1>3, NetworkOnly

\* A step of run() between its request and the child.
LEMMA FilesOnly ==
  ASSUME FirmwareInv, alive, alive', calls = <<>>, calls' = <<>>,
         UNCHANGED <<initialized, probed, hook, given, cached, image, published, sent>>,
         reply' \in {reply, IOError}, {tmp', old', path'} \subseteq Binaries \cup {None},
         phase' \in {"idle", "writing", "displace", "install", "remove", "execute"},
         RunsWhatIsInstalled', Recoverable', NothingHalfWritten', Replacing'
  PROVE  FirmwareInv'
<1>1. calls' \in Seq(Call) /\ DOMAIN calls' = {}
  OBVIOUS
<1>2. reply \in Response /\ reply.payload \in sent \cup {None}
  BY DEF FirmwareInv, NetworkTypeOK, AnswersWereSent
<1>3. ProbeNeverNests' /\ AnswersWereSent'
  BY <1>1, <1>2, IOErrorIsResponse DEF ProbeNeverNests, AnswersWereSent
<1>4. NetworkTypeOK'
  <2>1. NetworkTypeOK
    BY DEF FirmwareInv
  <2> QED BY <2>1, <1>1, <1>2, IOErrorIsResponse DEF NetworkTypeOK
<1>5. UpdateTypeOK'
  BY DEF FirmwareInv, UpdateTypeOK
<1> QED BY <1>3, <1>4, <1>5 DEF FirmwareInv

\* A process starts from the path, whoever starts it.
LEMMA StartsInv ==
  ASSUME FirmwareInv, Starts
  PROVE  FirmwareInv'
<1>1. /\ path' = path /\ path # None /\ old' = old /\ published' = published /\ sent' = sent
      /\ alive' = TRUE /\ image' = path /\ phase' = "idle" /\ tmp' = None
  BY DEF Starts
<1>2. path \in Binaries
  BY <1>1 DEF FirmwareInv, NetworkTypeOK
<1>3. /\ CallsInv' /\ calls' = <<>> /\ cached' = None
      /\ initialized' \in BOOLEAN /\ probed' \in BOOLEAN
      /\ hook' \in AnyHook /\ given' \in AnyHook
  BY <1>1, FreshMemory DEF Starts
<1>4. NetworkTypeOK'
  BY <1>1, <1>2, <1>3 DEF NetworkTypeOK, CallsInv
<1>5. UpdateTypeOK'
  BY <1>1, <1>2 DEF FirmwareInv, UpdateTypeOK
<1>6. RunsWhatIsInstalled' /\ Recoverable' /\ Replacing'
  BY <1>1, <1>3 DEF RunsWhatIsInstalled, Recoverable, Replacing
<1>7. NothingHalfWritten'
  BY <1>1 DEF FirmwareInv, NothingHalfWritten
<1> QED BY <1>3, <1>4, <1>5, <1>6, <1>7 DEF FirmwareInv, CallsInv

LEMMA StopInv ==
  ASSUME FirmwareInv, Stop
  PROVE  FirmwareInv'
<1>1. /\ path' = path /\ old' = old /\ published' = published /\ sent' = sent
      /\ alive' = FALSE /\ image' = image /\ phase' = "idle" /\ tmp' = None
  BY DEF Stop
<1>2. /\ CallsInv' /\ calls' = <<>> /\ cached' = None
      /\ initialized' \in BOOLEAN /\ probed' \in BOOLEAN
      /\ hook' \in AnyHook /\ given' \in AnyHook
  BY <1>1, FreshMemory DEF Stop
<1>3. NetworkTypeOK'
  BY <1>1, <1>2 DEF NetworkTypeOK, CallsInv, FirmwareInv
<1>4. UpdateTypeOK'
  BY <1>1 DEF FirmwareInv, UpdateTypeOK
<1>5. RunsWhatIsInstalled' /\ Recoverable' /\ Replacing'
  BY <1>1, <1>2 DEF FirmwareInv, RunsWhatIsInstalled, Recoverable, Replacing
<1>6. NothingHalfWritten'
  BY <1>1 DEF FirmwareInv, NothingHalfWritten
<1> QED BY <1>2, <1>3, <1>4, <1>5, <1>6 DEF FirmwareInv, CallsInv

LEMMA UpdaterInv ==
  ASSUME FirmwareInv, Updater
  PROVE  FirmwareInv'
<1> USE DEF networkVars, processVars
<1>1. /\ alive /\ sent \subseteq Binaries /\ image \in Binaries
      /\ {tmp, old, path} \subseteq Binaries \cup {None}
      /\ phase \notin {"idle", "fetching"} => calls = <<>>
      /\ RunsWhatIsInstalled /\ Recoverable /\ NothingHalfWritten /\ Replacing
      /\ reply.payload \in sent \cup {None}
  BY DEF Updater, FirmwareInv, UpdateTypeOK, NetworkTypeOK, Replacing, AnswersWereSent
<1>2. None \notin Binaries
  BY NoneAssumption
<1>3. CASE NoBinary
  <2>1. RunsWhatIsInstalled' /\ Recoverable' /\ NothingHalfWritten' /\ Replacing'
    BY <1>1, <1>3 DEF NoBinary, ReplyDropped, RunsWhatIsInstalled, Recoverable,
                      NothingHalfWritten, Replacing
  <2> QED BY <2>1, <1>1, <1>3, FilesOnly DEF NoBinary, ReplyDropped
<1>4. CASE FileOpened
  <2>1. RunsWhatIsInstalled' /\ Recoverable' /\ NothingHalfWritten' /\ Replacing'
    BY <1>1, <1>4 DEF FileOpened, RunsWhatIsInstalled, Recoverable,
                      NothingHalfWritten, Replacing
  <2>2. tmp' \in Binaries
    <3>1. reply.payload \in Binaries
      BY <1>1, <1>4 DEF FileOpened
    <3>2. reply.payload.version \in Versions
      BY <3>1, BinariesAssumption
    <3> QED BY <3>2, <1>4, BinariesAssumption DEF FileOpened, Cut
  <2> QED BY <2>1, <2>2, <1>1, <1>4, FilesOnly DEF FileOpened
<1>5. CASE FileFails
  <2>1. RunsWhatIsInstalled' /\ Recoverable' /\ NothingHalfWritten' /\ Replacing'
    BY <1>1, <1>5 DEF FileFails, ReplyDropped, RunsWhatIsInstalled, Recoverable,
                      NothingHalfWritten, Replacing
  <2> QED BY <2>1, <1>1, <1>5, FilesOnly DEF FileFails, ReplyDropped
<1>6. CASE FileWritten
  <2>1. RunsWhatIsInstalled' /\ Recoverable' /\ NothingHalfWritten' /\ Replacing'
    BY <1>1, <1>6 DEF FileWritten, RunsWhatIsInstalled, Recoverable,
                      NothingHalfWritten, Replacing
  <2>2. tmp' \in Binaries
    BY <1>1, <1>6 DEF FileWritten, Replacing
  <2> QED BY <2>1, <2>2, <1>1, <1>6, FilesOnly DEF FileWritten
<1>7. CASE Displace
  <2>1. RunsWhatIsInstalled' /\ Recoverable' /\ NothingHalfWritten' /\ Replacing'
    BY <1>1, <1>7 DEF Displace, RunsWhatIsInstalled, Recoverable,
                      NothingHalfWritten, Replacing
  <2> QED BY <2>1, <1>1, <1>7, FilesOnly DEF Displace
<1>8. CASE Install
  <2>1. tmp \in sent
    BY <1>1, <1>8 DEF Install, Replacing
  <2>2. RunsWhatIsInstalled' /\ Recoverable' /\ NothingHalfWritten' /\ Replacing'
    BY <2>1, <1>1, <1>2, <1>8 DEF Install, RunsWhatIsInstalled, Recoverable,
                      NothingHalfWritten, Replacing
  <2> QED BY <2>2, <1>1, <1>8, FilesOnly DEF Install
<1>9. CASE RemoveOld
  <2>1. RunsWhatIsInstalled' /\ Recoverable' /\ NothingHalfWritten' /\ Replacing'
    BY <1>1, <1>9 DEF RemoveOld, RunsWhatIsInstalled, Recoverable,
                      NothingHalfWritten, Replacing
  <2> QED BY <2>1, <1>1, <1>9, FilesOnly DEF RemoveOld
<1>10. CASE Execute
  BY <1>10, StartsInv DEF Execute
<1> QED BY <1>3, <1>4, <1>5, <1>6, <1>7, <1>8, <1>9, <1>10 DEF Updater

LEMMA PublishInv ==
  ASSUME FirmwareInv, NEW v \in Versions, Publish(v)
  PROVE  FirmwareInv'
<1> USE DEF networkVars, processVars
<1>1. /\ UNCHANGED <<initialized, probed, hook, given, cached, calls, reply, path>>
      /\ UNCHANGED <<phase, tmp, old, image, alive, sent>> /\ published' = v
  BY DEF Publish
<1> QED
  BY <1>1 DEF FirmwareInv, NetworkTypeOK, UpdateTypeOK, ProbeNeverNests, RunsWhatIsInstalled,
              Recoverable, NothingHalfWritten, Replacing, AnswersWereSent

LEMMA StutterInv ==
  ASSUME FirmwareInv, UNCHANGED vars
  PROVE  FirmwareInv'
<1>1. /\ UNCHANGED <<initialized, probed, hook, given, cached, calls, reply, path>>
      /\ UNCHANGED <<phase, tmp, old, image, alive, published, sent>>
  BY DEF vars, networkVars, processVars, updateVars
<1> QED
  BY <1>1 DEF FirmwareInv, NetworkTypeOK, UpdateTypeOK, ProbeNeverNests, RunsWhatIsInstalled,
              Recoverable, NothingHalfWritten, Replacing, AnswersWereSent

LEMMA InvStep == FirmwareInv /\ [Next]_vars => FirmwareInv'
  BY NetworkStepInv, ServerAnswersInv, RunInv, UpdaterInv, StopInv, StartsInv, PublishInv,
     StutterInv DEF Next, Restart

-----------------------------------------------------------------------------
\* The inductive invariant holds in every state: types, one probe, and what
\* the steps of an update leave to each other and to a restart.
THEOREM FirmwareInvariant == Spec => []FirmwareInv
  BY InvInit, InvStep, PTL DEF Spec

\* Wherever an update stops, the path names a binary or the one that ran is
\* beside it.
THEOREM FirmwareSurvives == Spec => []Recoverable
<1>1. FirmwareInv => Recoverable BY DEF FirmwareInv
<1> QED BY <1>1, FirmwareInvariant, PTL

\* What a failing disk took of a binary is never put in place, nor kept as the
\* binary to go back to.
THEOREM FilesAreWhole == Spec => []NothingHalfWritten
<1>1. FirmwareInv => NothingHalfWritten BY DEF FirmwareInv
<1> QED BY <1>1, FirmwareInvariant, PTL

\* A process never runs beside another binary than its own, nor announces one.
THEOREM FirmwareAnnounced == Spec => []RunsWhatIsInstalled
<1>1. FirmwareInv => RunsWhatIsInstalled
  BY DEF FirmwareInv
<1> QED BY <1>1, FirmwareInvariant, PTL

\* Wifi::status() never probes within its probe.
THEOREM OneProbe == Spec => []ProbeNeverNests
<1>1. FirmwareInv => ProbeNeverNests
  BY DEF FirmwareInv
<1> QED BY <1>1, FirmwareInvariant, PTL

LEMMA HookGivenStep ==
  hook = given /\ [Next]_vars => (hook = given)'
<1> SUFFICES ASSUME hook = given, [Next]_vars PROVE hook' = given'
  OBVIOUS
<1> USE DEF networkVars, processVars
<1>1. CASE NetworkStep
  BY <1>1 DEF NetworkStep, Application, Client, SetUpdateHook, TakeUpdateHook, HttpRequest,
              IsConnected, BeginProbes, BeginConnects, Fails, HookCalled, NoHookCalled,
              HookReturns, Return
<1>2. CASE ServerAnswers
  BY <1>2 DEF ServerAnswers, Answered, Return
<1>3. CASE Run
  BY <1>3 DEF Run, HttpRequest
<1>4. CASE Updater
  BY <1>4 DEF Updater, NoBinary, FileOpened, FileFails, FileWritten, Displace, Install,
              RemoveOld, Execute, Starts, MemoryReset, ReplyDropped
<1>5. CASE Stop \/ Restart
  BY <1>5 DEF Stop, Restart, Starts, MemoryReset
<1>6. CASE (\E v \in Versions: Publish(v)) \/ UNCHANGED vars
  BY <1>6 DEF Publish, vars
<1> QED BY <1>1, <1>2, <1>3, <1>4, <1>5, <1>6 DEF Next

\* An answer that names another version than the running one reaches the hook
\* the application set last, if its status is a known one.
THEOREM OfferAlwaysReachesHook == Spec => OfferReachesHook
<1> DEFINE Reaches ==
      At("received") /\ Top.answer.status \in Known /\ Top.answer.latest \notin {None, image}
        /\ alive' /\ calls' # calls
      => Len(calls') = Len(calls) /\ Last(calls').at = "hook" /\ Last(calls').called = given
<1>1. FirmwareInv /\ hook = given /\ [Next]_vars => Reaches
  <2> SUFFICES ASSUME FirmwareInv, hook = given, [Next]_vars, At("received"),
                      Top.answer.status \in Known, Top.answer.latest \notin {None, image},
                      alive', calls' # calls
               PROVE  Len(calls') = Len(calls) /\ Last(calls').at = "hook" /\ Last(calls').called = given
    OBVIOUS
  <2> USE DEF networkVars, processVars
  <2>1. calls # <<>> /\ Top.at = "received" /\ ~At("hook") /\ ~At("begin") /\ ~At("sent")
    BY DEF At
  <2>2. alive /\ phase \in {"idle", "fetching"}
    BY <2>1 DEF FirmwareInv, Replacing, UpdateTypeOK
  <2>3. Offers(Top.answer)
    BY <2>2 DEF FirmwareInv, RunsWhatIsInstalled, Offers
  <2>4. CASE NetworkStep
    <3>1. HookCalled
      <4>1. ~AppRuns
        BY <2>1 DEF AppRuns
      <4> QED
        BY <2>4, <2>1, <2>3, <4>1 DEF NetworkStep, Application, Client, SetUpdateHook,
           TakeUpdateHook, HttpRequest, IsConnected, BeginProbes, BeginConnects, Fails,
           NoHookCalled, HookReturns
    <3> DEFINE c == [Top EXCEPT !.at = "hook", !.called = hook]
    <3>2. calls' = Append(Front(calls), c)
      BY <3>1 DEF HookCalled, Continue
    <3>3. /\ Front(calls) \in Seq(Call) /\ Len(Front(calls)) = Len(calls) - 1
          /\ Last(calls) \in Call /\ Len(calls) \in Nat \ {0}
      BY <2>1, FrontOfCalls DEF FirmwareInv, NetworkTypeOK
    <3>4. c \in Call /\ c.at = "hook" /\ c.called = given
      <4>1. hook \in AnyHook
        BY DEF FirmwareInv, NetworkTypeOK
      <4> QED BY <3>3, <4>1 DEF Call, Top
    <3> HIDE DEF c
    <3> QED BY <3>2, <3>3, <3>4 DEF Last
  <2>5. CASE ServerAnswers
    BY <2>5, <2>1 DEF ServerAnswers, Answered
  <2>6. CASE Run
    BY <2>6, <2>1 DEF Run
  <2>7. CASE Updater
    BY <2>7, <2>1, <2>2 DEF Updater, NoBinary, FileOpened, FileFails, FileWritten, Displace,
                       Install, RemoveOld, Execute
  <2>8. CASE Stop \/ Restart
    BY <2>8, <2>2 DEF Stop, Restart
  <2>9. CASE (\E v \in Versions: Publish(v)) \/ UNCHANGED vars
    BY <2>9 DEF Publish, vars
  <2> QED BY <2>4, <2>5, <2>6, <2>7, <2>8, <2>9 DEF Next
<1>2. Init => hook = given
  BY DEF Init, NewProcess
<1> QED BY <1>1, <1>2, HookGivenStep, FirmwareInvariant, PTL DEF Spec, OfferReachesHook

-----------------------------------------------------------------------------
LEMMA SlotInit == Init => Slot!Init
<1> SUFFICES ASSUME Init PROVE Slot!Init OBVIOUS
<1>1. Whole(First) \in Binaries BY FirstAssumption, BinariesAssumption DEF Whole
<1>2. path = Whole(First) /\ image = Whole(First) /\ alive /\ sent = {Whole(First)}
  BY DEF Init
<1>3. path # None BY <1>1, <1>2, BinariesAssumption, NoneAssumption
<1> QED BY <1>1, <1>2, <1>3 DEF Slot!Init

\* An application and its requests run in front of the binary they are of.
LEMMA SlotUpToDate ==
  ASSUME FirmwareInv, alive, phase \in {"idle", "fetching", "writing", "displace"}
  PROVE  Slot!UpToDate /\ path = image
<1>1. path = image /\ image # None
  BY BinariesAssumption, NoneAssumption
     DEF FirmwareInv, RunsWhatIsInstalled, UpdateTypeOK
<1> QED BY <1>1 DEF Slot!UpToDate

\* What a step does to the slot, by the statement of run() it is.
LEMMA SlotStep == FirmwareInv /\ [Next]_vars => [Slot!Next]_Slot!vars
<1> SUFFICES ASSUME FirmwareInv, [Next]_vars PROVE [Slot!Next]_Slot!vars OBVIOUS
<1> USE DEF networkVars, processVars, updateVars
<1>1. ASSUME UNCHANGED <<path, old, image, alive, sent>> PROVE [Slot!Next]_Slot!vars
  BY <1>1 DEF Slot!vars
<1>2. CASE NetworkStep
  <2>1. UNCHANGED path
    BY <1>2 DEF NetworkStep, Application, Client, SetUpdateHook, TakeUpdateHook, HttpRequest,
                IsConnected, BeginProbes, BeginConnects, Fails, HookCalled, NoHookCalled,
                HookReturns, Return
  <2> QED BY <1>1, <1>2, <2>1 DEF NetworkStep
<1>3. CASE ServerAnswers
  <2>1. PICK answer \in Answers(Top.by) :
          Answered(answer) /\ sent' = sent \cup ({answer.payload} \ {None})
    BY <1>3 DEF ServerAnswers
  <2>2. UNCHANGED <<path, old, image, alive>> BY <1>3, <2>1 DEF ServerAnswers, Answered, Return
  <2>3. alive /\ phase \in {"idle", "fetching"}
    BY <1>3 DEF ServerAnswers, FirmwareInv, Replacing, UpdateTypeOK
  <2>4. Slot!UpToDate BY <2>3, SlotUpToDate
  <2>5. CASE answer.payload = None BY <1>1, <2>1, <2>2, <2>5
  <2>6. CASE answer.payload # None
    <3>1. answer.payload \in Binaries
      <4>1. published \in Versions BY DEF FirmwareInv, UpdateTypeOK
      <4>2. answer.payload \in {None, Whole(published), Cut(published)}
        BY DEF Answers
      <4> QED BY <2>6, <4>1, <4>2, BinariesAssumption DEF Whole, Cut
    <3>2. sent' = sent \cup {answer.payload} BY <2>1, <2>6
    <3> QED BY <2>2, <2>4, <3>1, <3>2 DEF Slot!Next, Slot!Receive
  <2> QED BY <2>5, <2>6
<1>4. CASE Run
  BY <1>1, <1>4 DEF Run, HttpRequest
<1>5. CASE Updater
  <2>1. CASE NoBinary \/ FileOpened \/ FileFails \/ FileWritten
    BY <1>1, <2>1 DEF NoBinary, FileOpened, FileFails, FileWritten, ReplyDropped
  <2>2. CASE Displace
    <3>1. path = image /\ Slot!UpToDate BY <1>5, <2>2, SlotUpToDate DEF Updater, Displace
    <3>2. path # None BY <3>1 DEF Slot!UpToDate
    <3> QED BY <2>2, <3>1, <3>2 DEF Displace, Slot!Next, Slot!BeginReplacing
  <2>3. CASE Install
    <3>1. alive /\ path = None /\ old = image /\ tmp \in sent
      BY <1>5, <2>3 DEF Updater, Install, FirmwareInv, Replacing, Recoverable
    <3>2. tmp # None
      BY <3>1, BinariesAssumption, NoneAssumption DEF FirmwareInv, UpdateTypeOK
    <3> QED BY <2>3, <3>1, <3>2 DEF Install, Slot!Next, Slot!EndReplacing
  <2>4. CASE RemoveOld
    <3>1. path # None BY <2>4 DEF RemoveOld, FirmwareInv, Replacing
    <3> QED BY <2>4, <3>1 DEF RemoveOld, Slot!vars
  <2>5. CASE Execute
    BY <2>5 DEF Execute, Starts, Slot!Next, Slot!Start
  <2> QED BY <1>5, <2>1, <2>2, <2>3, <2>4, <2>5 DEF Updater
<1>6. CASE Stop
  BY <1>6 DEF Stop, MemoryReset, Slot!Next, Slot!Stop
<1>7. CASE Restart
  BY <1>7 DEF Restart, Starts, Slot!Next, Slot!Start
<1>8. CASE (\E v \in Versions: Publish(v)) \/ UNCHANGED vars
  BY <1>1, <1>8 DEF Publish, vars
<1> QED BY <1>2, <1>3, <1>4, <1>5, <1>6, <1>7, <1>8 DEF Next

\* The updater implements the slot: its files, at every statement, failure and
\* stop, hold one binary, and a replacement is one step that begins and ends.
THEOREM ImplementsFirmwareSlot == Spec => UpdatesAtomically
<1>1. Slot!Init /\ [][Slot!Next]_Slot!vars => UpdatesAtomically
  BY DEF UpdatesAtomically, Slot!Spec
<1> QED BY <1>1, SlotInit, SlotStep, FirmwareInvariant, PTL DEF Spec
=============================================================================
