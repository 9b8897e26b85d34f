------------------------------ MODULE Network ------------------------------
(***************************************************************************)
(* iop::Network (src/include/iop-hal/network.hpp, src/src/network.cpp) over *)
(* the Linux Wifi (src/src/posix/linux/wifi.hpp). Calls nest: the first    *)
(* Wifi::status() runs a client of its own inside the client that asked,   *)
(* and a response may call the application's update hook, which may call   *)
(* the network again. How one client serves a request is HttpClient; here  *)
(* it answers or fails.                                                    *)
(***************************************************************************)
EXTENDS Naturals, SequencesExt

CONSTANTS
  Hooks,        \* the update hooks an application sets
  DefaultHook,  \* UpdateHook::defaultHook, which does nothing
  Binaries,     \* firmware binaries, each identified with its MD5
  None,
  MaxDepth      \* bound: requests the application may nest through its hook

ASSUME HooksAssumption == DefaultHook \notin Hooks
ASSUME NoneAssumption == None \notin Binaries

VARIABLES
  initialized,  \* Network::setup() has run in this process
  probed,       \* `running` of Wifi::status()
  hook,         \* the update hook
  given,        \* history: the hook the application set and has not taken back
  cached,       \* the hash firmwareMD5() keeps, None before its first call
  path,         \* the file the process was started from, None if there is none
  calls,        \* the requests under way, the innermost last
  reply         \* what the last httpGet() gave Update::run()

processVars == <<initialized, probed, hook, given, cached, calls, reply>>
networkVars == <<processVars, path>>

AnyHook == Hooks \cup {DefaultHook}
Known == {"OK", "refused"}

\* A response. What networkStatus() knows is 200, and 500 and 401, which are
\* "refused" here; "unknown" is every other code, "IO_ERROR" is none.
Response == [status: Known \cup {"unknown", "IO_ERROR"},
             latest: Binaries \cup {None}, payload: Binaries \cup {None}]
IOError == [status |-> "IO_ERROR", latest |-> None, payload |-> None]

\* A request of the application or the updater, or the probe of the first
\* status(); in begin(), connected, answered, or inside the hook it called.
Call == [by: {"app", "update", "probe"}, at: {"begin", "sent", "received", "hook"},
         answer: Response, called: AnyHook]
NewCall(who) == [by |-> who, at |-> "begin", answer |-> IOError, called |-> DefaultHook]

Top == Last(calls)
Continue(call) == calls' = Append(Front(calls), call)
At(step) == calls # <<>> /\ Top.at = step

\* The application runs between its calls and inside its hook.
AppRuns == calls = <<>> \/ At("hook")

NewProcess ==
  /\ initialized = FALSE
  /\ probed = FALSE
  /\ hook = DefaultHook
  /\ given = DefaultHook
  /\ cached = None
  /\ calls = <<>>
  /\ reply = IOError

MemoryReset ==
  /\ initialized' = FALSE
  /\ probed' = FALSE
  /\ hook' = DefaultHook
  /\ given' = DefaultHook
  /\ cached' = None
  /\ calls' = <<>>
  /\ reply' = IOError

SetUpdateHook(h) ==
  /\ AppRuns
  /\ hook' = h
  /\ given' = h
  /\ UNCHANGED <<initialized, probed, cached, path, calls, reply>>

TakeUpdateHookKept ==                  \* mutant: the hook is copied out and kept
  /\ AppRuns
  /\ given' = DefaultHook
  /\ UNCHANGED <<initialized, probed, hook, cached, path, calls, reply>>

TakeUpdateHook ==
  /\ AppRuns
  /\ hook' = DefaultHook
  /\ given' = DefaultHook
  /\ UNCHANGED <<initialized, probed, cached, path, calls, reply>>

\* httpPost(), httpGet(), httpRequest(): setup() once, then begin().
HttpRequest(who) ==
  /\ AppRuns
  /\ Len(calls) < MaxDepth
  /\ initialized' = TRUE
  /\ calls' = Append(calls, NewCall(who))
  /\ UNCHANGED <<probed, hook, given, cached, path, reply>>

ProbeUnmarked == calls' = Append(calls, NewCall("probe")) /\ UNCHANGED probed
                                       \* mutant: running is set after the probe
\* The first Wifi::status(): it marks itself before it asks the network.
Probe ==
  /\ probed' = TRUE
  /\ calls' = Append(calls, NewCall("probe"))

\* isConnected(): later calls answer GOT_IP and change nothing.
IsConnected ==
  /\ AppRuns
  /\ ~probed
  /\ Probe
  /\ UNCHANGED <<initialized, hook, given, cached, path, reply>>

\* begin() asks for the status first, and is suspended by the probe.
BeginProbes ==
  /\ At("begin")
  /\ ~probed
  /\ Probe
  /\ UNCHANGED <<initialized, hook, given, cached, path, reply>>

\* The hash of the file at the path when it is first asked for.
FirmwareMD5 == IF cached # None THEN cached ELSE path

\* begin() has a session: prepareSession() sends the hash of the firmware. The
\* probe sends no header.
BeginConnects ==
  /\ At("begin")
  /\ probed
  /\ Continue([Top EXCEPT !.at = "sent"])
  /\ cached' = IF Top.by = "probe" THEN cached ELSE FirmwareMD5
  /\ UNCHANGED <<initialized, probed, hook, given, path, reply>>

\* The innermost call returns. A begin() that waits for its probe goes on if
\* the probe had an answer, and otherwise returns IO_ERROR itself.
Return(answer) ==
  LET below == Front(calls)
      suspended == Top.by = "probe" /\ below # <<>> /\ Last(below).at = "begin"
      failed == suspended /\ answer.status = "IO_ERROR"
      returning == IF failed THEN Last(below) ELSE Top
  IN /\ calls' = IF failed THEN Front(below) ELSE below
     /\ reply' = IF returning.by = "update" THEN answer ELSE reply
     /\ UNCHANGED <<initialized, probed, hook, given, cached, path>>

\* No connection, or no response.
Fails ==
  /\ At("begin") \/ At("sent")
  /\ probed
  /\ Return(IOError)

\* The server's answer; the probe only looks at its code.
Answered(answer) ==
  /\ At("sent")
  /\ IF Top.by = "probe"
     THEN Return(answer)
     ELSE /\ Continue([Top EXCEPT !.at = "received", !.answer = answer])
          /\ UNCHANGED <<initialized, probed, hook, given, cached, path, reply>>

OffersIfOK(answer) ==                  \* mutant: the header is read with the payload
  answer.status = "OK" /\ answer.latest \notin {None, cached}

Offers(answer) == answer.status \in Known /\ answer.latest \notin {None, cached}

\* What processResponse() hands on: a payload only with OK.
Processed(answer) ==
  IF answer.status = "OK" THEN answer ELSE [answer EXCEPT !.payload = None]

\* processResponse(): a version other than this one calls the hook ...
HookCalled ==
  /\ At("received")
  /\ Offers(Top.answer)
  /\ Continue([Top EXCEPT !.at = "hook", !.called = hook])
  /\ UNCHANGED <<initialized, probed, hook, given, cached, path, reply>>

\* ... and every other response is returned at once.
NoHookCalled ==
  /\ At("received")
  /\ ~Offers(Top.answer)
  /\ Return(Processed(Top.answer))

HookReturns ==
  /\ At("hook")
  /\ Return(Processed(Top.answer))

Application ==
  \/ \E h \in Hooks: SetUpdateHook(h)
  \/ TakeUpdateHook
  \/ HttpRequest("app")
  \/ IsConnected

Client == BeginProbes \/ BeginConnects \/ Fails \/ HookCalled \/ NoHookCalled \/ HookReturns

-----------------------------------------------------------------------------
NetworkTypeOK ==
  /\ initialized \in BOOLEAN
  /\ probed \in BOOLEAN
  /\ hook \in AnyHook
  /\ given \in AnyHook
  /\ cached \in Binaries \cup {None}
  /\ path \in Binaries \cup {None}
  /\ calls \in Seq(Call)
  /\ reply \in Response

\* The probe runs a client, which asks for the status, which must not probe:
\* there is never a second probe under way, and none before it is marked. A
\* probe is the innermost call, as its answer calls no hook.
ProbeNeverNests ==
  /\ \A i, j \in DOMAIN calls: calls[i].by = "probe" /\ calls[j].by = "probe" => i = j
  /\ \A i \in DOMAIN calls: calls[i].by = "probe" => 
       probed /\ i = Len(calls) /\ calls[i].at \in {"begin", "sent"}
=============================================================================
