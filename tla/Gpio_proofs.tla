----------------------------- MODULE Gpio_proofs -----------------------------
(***************************************************************************)
(* ThreadsInv is inductive, for any number of threads, hooks and depths of *)
(* panics. The calls of panicHandler() of one thread come first: a lemma   *)
(* per way a step may change them. The polling threads' accounts follow.   *)
(***************************************************************************)
EXTENDS Gpio, TLAPS

\* What PanicInv says of one thread's calls; `clean`: its cleanup returned.
CallsOK(s, panicking, clean) ==
  /\ \A i, j \in DOMAIN s:
       /\ s[i].claimed => panicking
       /\ s[i].claimed /\ s[j].claimed => i = j
  /\ \A i \in DOMAIN s:
       /\ s[i].at = "claim" =>
            /\ i = Len(s)
            /\ s[i].runs = "default"
            /\ \A j \in DOMAIN s: ~s[j].claimed
       /\ s[i].at = "halt" => clean

LEMMA PanicInvByThread ==
  PanicInv <=> /\ PanicTypeOK
               /\ \A t \in Threads: CallsOK(panics[t], isPanicking, t \in cleaned)
               /\ OnlyReentryUncleaned
               /\ aborter # None => ~alive /\ panics[aborter] # <<>>
  BY DEF PanicInv, ReentryStops, CallsOK

\* The innermost call, and the others.
LEMMA FrontOfPanics ==
  ASSUME NEW s \in Seq(Call), s # <<>>
  PROVE  /\ Front(s) \in Seq(Call)
         /\ Len(s) \in Nat \ {0}
         /\ Len(Front(s)) = Len(s) - 1
         /\ \A i \in 1..(Len(s) - 1): Front(s)[i] = s[i]
         /\ Last(s) \in Call
         /\ Last(s) = s[Len(s)]
<1>1. Len(s) \in Nat \ {0} /\ DOMAIN s = 1..Len(s) /\ \A i \in 1..Len(s): s[i] \in Call
  OBVIOUS
<1> QED BY <1>1 DEF Front, Last

LEMMA Appended ==
  ASSUME NEW s \in Seq(Call), NEW c \in Call
  PROVE  /\ Append(s, c) \in Seq(Call)
         /\ Len(Append(s, c)) = Len(s) + 1
         /\ DOMAIN Append(s, c) = 1..(Len(s) + 1)
         /\ Append(s, c)[Len(s) + 1] = c
         /\ \A i \in 1..Len(s): Append(s, c)[i] = s[i]
         /\ Append(s, c) # <<>>
         /\ Last(Append(s, c)) = c
  BY DEF Last

\* A panic in a function of the application.
LEMMA PanicPushed ==
  ASSUME NEW s \in Seq(Call), NEW p \in BOOLEAN, NEW k \in BOOLEAN,
         CallsOK(s, p, k), s # <<>> => Last(s).runs = "custom",
         NEW c \in Call, c.at = "entry", ~c.claimed
  PROVE  CallsOK(Append(s, c), p, k)
<1> DEFINE a == Append(s, c)
           n == Len(s)
<1>1. /\ n \in Nat /\ DOMAIN s = 1..n /\ DOMAIN a = 1..(n + 1)
      /\ a[n + 1] = c /\ \A i \in 1..n: a[i] = s[i]
  BY Appended
<1>2. \A i \in 1..n: s[i].at # "claim"
  <2> SUFFICES ASSUME NEW i \in 1..n, s[i].at = "claim" PROVE FALSE
    OBVIOUS
  <2>1. i = n /\ s[i].runs = "default"
    BY <1>1 DEF CallsOK
  <2>2. s # <<>>
    OBVIOUS
  <2> QED BY <2>1, <2>2 DEF Last
<1>3. \A i \in 1..(n + 1): i \in 1..n \/ i = n + 1
  BY <1>1
<1> HIDE DEF a, n
<1>4. \A i \in 1..(n + 1): a[i].claimed => i \in 1..n /\ s[i].claimed
  BY <1>1, <1>3
<1>5. \A i \in 1..(n + 1): a[i].at # "claim" /\ (a[i].at = "halt" => i \in 1..n /\ s[i].at = "halt")
  BY <1>1, <1>2, <1>3
<1> QED BY <1>1, <1>4, <1>5 DEF CallsOK, a

\* The innermost call goes on.
LEMMA PanicContinued ==
  ASSUME NEW s \in Seq(Call), s # <<>>,
         NEW p \in BOOLEAN, NEW k \in BOOLEAN, NEW q \in BOOLEAN, NEW l \in BOOLEAN,
         CallsOK(s, p, k), p => q, k => l,
         NEW c \in Call,
         c.claimed => q /\ (Last(s).claimed \/ Last(s).at = "claim"),
         c.at = "claim" => c.runs = "default" /\ ~c.claimed /\ ~p,
         c.at = "halt" => l
  PROVE  CallsOK(Append(Front(s), c), q, l)
<1> DEFINE a == Append(Front(s), c)
           n == Len(s)
<1>1. /\ n \in Nat \ {0} /\ DOMAIN s = 1..n /\ Last(s) = s[n]
      /\ Front(s) \in Seq(Call) /\ Len(Front(s)) = n - 1
      /\ \A i \in 1..(n - 1): Front(s)[i] = s[i]
  BY FrontOfPanics
<1>2. /\ Len(a) = n /\ DOMAIN a = 1..n
      /\ a[n] = c /\ \A i \in 1..(n - 1): a[i] = s[i]
  <2> DEFINE f == Front(s)
  <2>1. f \in Seq(Call) /\ Len(f) = n - 1
    BY <1>1
  <2> HIDE DEF f
  <2>2. /\ Len(Append(f, c)) = Len(f) + 1 /\ DOMAIN Append(f, c) = 1..(Len(f) + 1)
        /\ Append(f, c)[Len(f) + 1] = c /\ \A i \in 1..Len(f): Append(f, c)[i] = f[i]
    BY <2>1, Appended
  <2>3. Len(f) + 1 = n
    BY <2>1, <1>1
  <2> QED BY <2>1, <2>2, <2>3, <1>1 DEF f
<1> HIDE DEF a, n
<1>3. \A i \in 1..n: i \in 1..(n - 1) \/ i = n
  BY <1>1
<1>4. \A i \in 1..(n - 1): i \in 1..n /\ i # n
  BY <1>1
<1>5. \A i \in 1..(n - 1): a[i] = s[i] /\ s[i].at # "claim"
  BY <1>1, <1>2, <1>4 DEF CallsOK, n
<1>6. ASSUME NEW i \in 1..n, a[i].claimed PROVE q
  BY <1>1, <1>2, <1>3, <1>4, <1>5, <1>6 DEF CallsOK
<1>7. ASSUME NEW i \in 1..n, NEW j \in 1..n, a[i].claimed, a[j].claimed PROVE i = j
  <2>1. c.claimed => \A m \in 1..(n - 1): ~s[m].claimed
    BY <1>1, <1>4 DEF CallsOK
  <2> QED BY <2>1, <1>1, <1>2, <1>3, <1>4, <1>5, <1>7 DEF CallsOK
<1>8. ASSUME NEW i \in 1..n, a[i].at = "claim"
      PROVE  i = n /\ a[i].runs = "default" /\ \A j \in 1..n: ~a[j].claimed
  <2>1. i = n /\ a[i] = c
    BY <1>2, <1>3, <1>5, <1>8
  <2>2. \A j \in 1..(n - 1): ~s[j].claimed
    BY <2>1, <1>1, <1>4, <1>8 DEF CallsOK
  <2> QED BY <2>1, <2>2, <1>2, <1>3, <1>5, <1>8
<1>9. ASSUME NEW i \in 1..n, a[i].at = "halt" PROVE l
  BY <1>1, <1>2, <1>3, <1>4, <1>5, <1>9 DEF CallsOK
<1> QED BY <1>2, <1>6, <1>7, <1>8, <1>9 DEF CallsOK, a

\* The same for the variables of Panic: one thread's calls change, or only
\* what the others do not look at.
LEMMA ThreadContinues ==
  ASSUME PanicInv, NEW t \in Threads, alive, panics[t] # <<>>,
         NEW c \in Call, Continue(t, c),
         isPanicking' \in BOOLEAN, isPanicking => isPanicking',
         cleaned' \subseteq Threads, cleaned \subseteq cleaned',
         c.claimed => isPanicking' /\ (Top(t).claimed \/ Top(t).at = "claim"),
         c.at = "claim" => c.runs = "default" /\ ~c.claimed /\ ~isPanicking,
         c.at = "halt" => t \in cleaned',
         UNCHANGED <<hook, alive, aborter>>
  PROVE  PanicInv'
<1> DEFINE s == panics[t]
<1>1. /\ PanicTypeOK /\ OnlyReentryUncleaned
      /\ aborter # None => ~alive /\ panics[aborter] # <<>>
      /\ \A u \in Threads: CallsOK(panics[u], isPanicking, u \in cleaned)
  BY PanicInvByThread
<1>2. s \in Seq(Call) /\ panics \in [Threads -> Seq(Call)]
  BY <1>1 DEF PanicTypeOK
<1>3. Append(Front(s), c) \in Seq(Call) /\ Append(Front(s), c) # <<>>
  BY <1>2, FrontOfPanics, Appended
<1>4. /\ panics' \in [Threads -> Seq(Call)]
      /\ panics'[t] = Append(Front(s), c)
      /\ \A u \in Threads \ {t}: panics'[u] = panics[u]
  BY <1>2, <1>3 DEF Continue
<1>5. CallsOK(panics'[t], isPanicking', t \in cleaned')
  <2>1. (t \in cleaned) \in BOOLEAN /\ (t \in cleaned') \in BOOLEAN /\ isPanicking \in BOOLEAN
    BY <1>1 DEF PanicTypeOK
  <2>2. (t \in cleaned) => (t \in cleaned')
    OBVIOUS
  <2>3. CallsOK(s, isPanicking, t \in cleaned)
    BY <1>1
  <2> QED BY <1>2, <1>4, <2>1, <2>2, <2>3, PanicContinued DEF Top
<1>6. \A u \in Threads \ {t}: CallsOK(panics'[u], isPanicking', u \in cleaned')
  BY <1>1, <1>4 DEF CallsOK
<1>7. PanicTypeOK'
  BY <1>1, <1>4 DEF PanicTypeOK
<1>8. aborter = None
  BY <1>1
<1>9. OnlyReentryUncleaned' /\ (aborter # None => ~alive /\ panics[aborter] # <<>>)'
  BY <1>8 DEF OnlyReentryUncleaned
<1> QED BY <1>5, <1>6, <1>7, <1>9, PanicInvByThread DEF CallsOK, PanicInv, ReentryStops

LEMMA ThreadPanics ==
  ASSUME PanicInv, NEW t \in Threads, alive, PanicHandler(t),
         panics[t] # <<>> => Top(t).runs = "custom"
  PROVE  PanicInv'
<1> DEFINE s == panics[t]
           c == [at |-> "entry", runs |-> hook.entry, claimed |-> FALSE]
<1>1. /\ PanicTypeOK /\ OnlyReentryUncleaned
      /\ aborter # None => ~alive /\ panics[aborter] # <<>>
      /\ \A u \in Threads: CallsOK(panics[u], isPanicking, u \in cleaned)
  BY PanicInvByThread
<1>2. s \in Seq(Call) /\ panics \in [Threads -> Seq(Call)]
  BY <1>1 DEF PanicTypeOK
<1>3. c \in Call
  BY <1>1 DEF PanicTypeOK, Hook, Call
<1>4. /\ panics' \in [Threads -> Seq(Call)]
      /\ panics'[t] = Append(s, c)
      /\ \A u \in Threads \ {t}: panics'[u] = panics[u]
  BY <1>2, <1>3, Appended DEF PanicHandler
<1>5. CallsOK(panics'[t], isPanicking, t \in cleaned)
  <2>1. (t \in cleaned) \in BOOLEAN /\ isPanicking \in BOOLEAN
    BY <1>1 DEF PanicTypeOK
  <2>2. CallsOK(s, isPanicking, t \in cleaned)
    BY <1>1
  <2>3. c.at = "entry" /\ ~c.claimed
    OBVIOUS
  <2> HIDE DEF c
  <2> QED BY <1>2, <1>3, <1>4, <2>1, <2>2, <2>3, PanicPushed DEF Top
<1>6. \A u \in Threads \ {t}: CallsOK(panics'[u], isPanicking, u \in cleaned)
  BY <1>1, <1>4
<1>7. UNCHANGED <<isPanicking, hook, alive, aborter, cleaned>>
  BY DEF PanicHandler
<1>8. PanicTypeOK'
  BY <1>1, <1>4, <1>7 DEF PanicTypeOK
<1>9. OnlyReentryUncleaned' /\ (aborter # None => ~alive /\ panics[aborter] # <<>>)'
  BY <1>1, <1>7 DEF OnlyReentryUncleaned
<1> QED BY <1>5, <1>6, <1>7, <1>8, <1>9, PanicInvByThread DEF CallsOK, PanicInv, ReentryStops

LEMMA PanicSame ==
  ASSUME PanicInv, UNCHANGED panicVars
  PROVE  PanicInv'
  BY DEF PanicInv, panicVars, PanicTypeOK, ReentryStops, OnlyReentryUncleaned, Top

\* The end of the process.
LEMMA ThreadAborts ==
  ASSUME PanicInv, NEW t \in Threads, Abort(t), panics[t] # <<>>,
         t \in cleaned \/ Top(t).at = "again"
  PROVE  PanicInv'
  BY DEF PanicInv, PanicTypeOK, ReentryStops, OnlyReentryUncleaned, Abort, Top

LEMMA HookChanges ==
  ASSUME PanicInv, NEW h \in Hook, SetPanicHook(h)
  PROVE  PanicInv'
  BY DEF PanicInv, SetPanicHook, PanicTypeOK, ReentryStops, OnlyReentryUncleaned, Top

LEMMA PanicProceeds ==
  ASSUME PanicInv, NEW t \in Threads, Proceeds(t)
  PROVE  PanicInv'
<1> DEFINE c == Top(t)
<1>1. /\ alive /\ panics[t] # <<>>
      /\ isPanicking \in BOOLEAN /\ hook \in Hook /\ cleaned \subseteq Threads
  BY DEF Proceeds, EntryChecks, EntryClaims, EntryReturns, ViewReturns, CleanupReturns,
         CustomHaltReturns, Halt, At, PanicInv, PanicTypeOK
<1>2. c \in Call
  BY <1>1, FrontOfPanics DEF PanicInv, PanicTypeOK, Top
<1>3. c.claimed => isPanicking
  BY <1>1, <1>2, FrontOfPanics DEF PanicInv, PanicTypeOK, ReentryStops, Top
<1>4. c.at = "halt" => t \in cleaned
  BY <1>1, <1>2, FrontOfPanics DEF PanicInv, PanicTypeOK, Top
<1>5. c.at = "claim" => ~c.claimed
  BY <1>1, <1>2, FrontOfPanics DEF PanicInv, PanicTypeOK, Top
<1>6. \A f \in {"view", "cleanup", "halt"}:
        [c EXCEPT !.at = f, !.runs = hook[f]] \in Call
  BY <1>1, <1>2 DEF Call, Hook
<1> HIDE DEF c
<1>7. CASE EntryChecks(t)
  <2> DEFINE d == [c EXCEPT !.at = IF isPanicking THEN "again" ELSE "claim"]
  <2>1. d \in Call /\ d.claimed = c.claimed /\ d.runs = "default"
        /\ d.at = IF isPanicking THEN "again" ELSE "claim"
    BY <1>2, <1>7 DEF Call, EntryChecks, c
  <2>2. Continue(t, d) /\ UNCHANGED <<isPanicking, hook, alive, aborter, cleaned>>
    BY <1>7 DEF EntryChecks, c
  <2> HIDE DEF d
  <2> QED BY <1>1, <1>3, <2>1, <2>2, ThreadContinues DEF c
<1>8. CASE EntryClaims(t)
  <2> DEFINE d == [c EXCEPT !.at = "sleep", !.claimed = TRUE]
  <2>1. d \in Call /\ d.claimed /\ d.at = "sleep" /\ c.at = "claim"
    BY <1>2, <1>8 DEF Call, EntryClaims, At, c
  <2>2. Continue(t, d) /\ isPanicking' = TRUE /\ UNCHANGED <<hook, alive, aborter, cleaned>>
    BY <1>8 DEF EntryClaims, c
  <2> HIDE DEF d
  <2> QED BY <1>1, <2>1, <2>2, ThreadContinues DEF c
<1>9. ASSUME NEW f \in {"view", "cleanup", "halt"}, Calls(t, f),
             cleaned' \subseteq Threads, cleaned \subseteq cleaned',
             f = "halt" => t \in cleaned',
             UNCHANGED <<isPanicking, hook, alive, aborter>>
      PROVE  PanicInv'
  <2> DEFINE d == [c EXCEPT !.at = f, !.runs = hook[f]]
  <2>1. d \in Call /\ d.claimed = c.claimed /\ d.at = f
    BY <1>2, <1>6 DEF Call
  <2>2. Continue(t, d)
    BY <1>9 DEF Calls, c
  <2> HIDE DEF d
  <2> QED BY <1>1, <1>3, <1>9, <2>1, <2>2, ThreadContinues DEF c
<1>10. CASE EntryReturns(t)
  BY <1>1, <1>9, <1>10 DEF EntryReturns
<1>11. CASE ViewReturns(t)
  BY <1>1, <1>9, <1>11 DEF ViewReturns
<1>12. CASE CleanupReturns(t)
  BY <1>1, <1>9, <1>12 DEF CleanupReturns
<1>13. CASE CustomHaltReturns(t)
  BY <1>1, <1>4, <1>13, ThreadAborts DEF CustomHaltReturns, At, c
<1>14. CASE Halt(t)
  <2> DEFINE d == [c EXCEPT !.at = "paused"]
  <2>1. d \in Call /\ d.claimed = c.claimed /\ d.at = "paused"
    BY <1>2 DEF Call
  <2>2. CASE Continue(t, d) /\ UNCHANGED <<isPanicking, hook, alive, aborter, cleaned>>
    <3> HIDE DEF d
    <3> QED BY <1>1, <1>3, <2>1, <2>2, ThreadContinues DEF c
  <2>3. CASE Abort(t)
    BY <1>1, <1>4, <1>14, <2>3, ThreadAborts DEF Halt, At, c
  <2> QED BY <1>14, <2>2, <2>3 DEF Halt, c
<1> QED BY <1>7, <1>8, <1>10, <1>11, <1>12, <1>13, <1>14 DEF Proceeds

-----------------------------------------------------------------------------
\* The account of a polling thread.
Account(t) ==
  /\ CallsAndPending(t) <= Causes(t)
  /\ at[t] \in {"none", "first"} => called[t] = 0

LEMMA ThreadsInvByThread ==
  ThreadsInv <=> PanicInv /\ GpioTypeOK /\ \A t \in Pollers: Account(t)
  BY DEF ThreadsInv, Account

LEMMA AccountSame ==
  ASSUME NEW u \in Pollers, Account(u),
         pin'[u] = pin[u], state'[u] = state[u], at'[u] = at[u],
         lastValue'[u] = lastValue[u], value'[u] = value[u],
         edges'[u] = edges[u], glitches'[u] = glitches[u], called'[u] = called[u]
  PROVE  Account(u)'
  BY DEF Account, CallsAndPending, Causes, Pending, Wanted

LEMMA GpioTypes ==
  ASSUME GpioTypeOK, NEW t \in Pollers
  PROVE  /\ pin[t] \in Data /\ state[t] \in InterruptState /\ edges[t] \in Nat
         /\ at[t] \in {"none", "first", "poll", "compare", "callback"}
         /\ lastValue[t] \in Data /\ value[t] \in Data
         /\ glitches[t] \in Nat /\ called[t] \in Nat
  BY DEF GpioTypeOK

\* A step of one thread's pin or loop leaves the accounts of the others.
GpioInv == GpioTypeOK /\ \A t \in Pollers: Account(t)

LEMMA PinChangeCounted ==
  ASSUME GpioInv, NEW t \in Pollers, PinChanges(t)
  PROVE  GpioInv'
<1>1. GpioTypeOK'
  BY DEF GpioInv, GpioTypeOK, PinChanges
<1>2. ASSUME NEW u \in Pollers \ {t} PROVE Account(u)'
  BY AccountSame DEF GpioInv, GpioTypeOK, PinChanges
<1>3. Account(t)'
  <2>1. PICK level \in Data \ {pin[t]}:
          /\ pin'[t] = level
          /\ edges'[t] = edges[t] + (IF at[t] # "none" /\ Wanted(t, pin[t], level) THEN 1 ELSE 0)
    BY DEF GpioInv, GpioTypeOK, PinChanges
  <2>2. UNCHANGED <<state, at, lastValue, value, glitches, called>>
    BY DEF PinChanges
  <2> QED BY <2>1, <2>2, GpioTypes
          DEF GpioInv, Account, CallsAndPending, Causes, Pending, Wanted, Data, InterruptState
<1> QED BY <1>1, <1>2, <1>3 DEF GpioInv

LEMMA CallbackSetCounted ==
  ASSUME GpioInv, NEW t \in Pollers, NEW change \in InterruptState,
         SetInterruptCallback(t, change)
  PROVE  GpioInv'
<1>1. GpioTypeOK'
  BY DEF GpioInv, GpioTypeOK, SetInterruptCallback
<1>2. ASSUME NEW u \in Pollers \ {t} PROVE Account(u)'
  BY AccountSame DEF GpioInv, GpioTypeOK, SetInterruptCallback
<1>3. Account(t)'
  <2>1. /\ at[t] = "none" /\ at'[t] = "first" /\ state'[t] \in InterruptState
        /\ UNCHANGED <<edges, glitches, called>>
    BY DEF GpioInv, GpioTypeOK, SetInterruptCallback
  <2> QED BY <2>1, GpioTypes DEF GpioInv, Account, CallsAndPending, Causes, InterruptState
<1> QED BY <1>1, <1>2, <1>3 DEF GpioInv

\* A reading that went wrong pays for the call it makes and the one back.
LEMMA ReadingCounted ==
  ASSUME GpioInv, NEW t \in Pollers, NEW text \in Texts(t), DigitalRead(t, text)
  PROVE  /\ DataOf(text) \in Data
         /\ glitches' \in [Pollers -> Nat]
         /\ glitches'[t] = glitches[t] + (IF DataOf(text) # pin[t] THEN 1 ELSE 0)
         /\ \A u \in Pollers \ {t}: glitches'[u] = glitches[u]
  BY DEF GpioInv, GpioTypeOK, DigitalRead, DataOf, Data

LEMMA PollCounted ==
  ASSUME GpioInv, NEW t \in Pollers, Poll(t)
  PROVE  GpioInv'
<1>1. CASE FirstRead(t)
  <2>1. PICK text \in Texts(t):
          DigitalRead(t, text) /\ lastValue' = [lastValue EXCEPT ![t] = DataOf(text)]
    BY <1>1 DEF FirstRead
  <2>2. /\ at[t] = "first" /\ at' = [at EXCEPT ![t] = "poll"]
        /\ UNCHANGED <<state, pin, value, edges, called>>
    BY <1>1 DEF FirstRead
  <2>3. GpioTypeOK'
    BY <2>1, <2>2, ReadingCounted DEF GpioInv, GpioTypeOK
  <2>4. ASSUME NEW u \in Pollers \ {t} PROVE Account(u)'
    BY <2>1, <2>2, ReadingCounted, AccountSame DEF GpioInv, GpioTypeOK
  <2>5. /\ lastValue'[t] = DataOf(text) /\ at'[t] = "poll" /\ DataOf(text) \in Data
        /\ glitches'[t] = glitches[t] + (IF DataOf(text) # pin[t] THEN 1 ELSE 0)
    BY <2>1, <2>2, ReadingCounted DEF GpioInv, GpioTypeOK
  <2>6. Account(t)'
    <3> DEFINE read == DataOf(text)
    <3> HIDE DEF read
    <3>1. CASE read = pin[t]
      BY <2>2, <2>5, <3>1, GpioTypes
         DEF GpioInv, Account, CallsAndPending, Causes, Pending, Wanted, read
    <3>2. CASE read # pin[t]
      <4>1. glitches'[t] = glitches[t] + 1 /\ read \in Data /\ lastValue'[t] = read
        BY <2>5, <3>2 DEF read
      <4> QED BY <2>2, <2>5, <3>2, <4>1, GpioTypes
              DEF GpioInv, Account, CallsAndPending, Causes, Pending, Wanted, Data, InterruptState
    <3> QED BY <3>1, <3>2
  <2> QED BY <2>3, <2>4, <2>6 DEF GpioInv
<1>2. CASE Read(t)
  <2>1. PICK text \in Texts(t):
          DigitalRead(t, text) /\ value' = [value EXCEPT ![t] = DataOf(text)]
    BY <1>2 DEF Read
  <2>2. /\ at[t] = "poll" /\ at' = [at EXCEPT ![t] = "compare"]
        /\ UNCHANGED <<state, pin, lastValue, edges, called>>
    BY <1>2 DEF Read
  <2>3. GpioTypeOK'
    BY <2>1, <2>2, ReadingCounted DEF GpioInv, GpioTypeOK
  <2>4. ASSUME NEW u \in Pollers \ {t} PROVE Account(u)'
    BY <2>1, <2>2, ReadingCounted, AccountSame DEF GpioInv, GpioTypeOK
  <2>5. /\ value'[t] = DataOf(text) /\ at'[t] = "compare" /\ DataOf(text) \in Data
        /\ glitches'[t] = glitches[t] + (IF DataOf(text) # pin[t] THEN 1 ELSE 0)
    BY <2>1, <2>2, ReadingCounted DEF GpioInv, GpioTypeOK
  <2>6. Account(t)'
    <3> DEFINE read == DataOf(text)
    <3> HIDE DEF read
    <3>1. CASE read = pin[t]
      BY <2>2, <2>5, <3>1, GpioTypes
         DEF GpioInv, Account, CallsAndPending, Causes, Pending, Wanted, read
    <3>2. CASE read # pin[t]
      <4>1. glitches'[t] = glitches[t] + 1 /\ read \in Data /\ value'[t] = read
        BY <2>5, <3>2 DEF read
      <4> QED BY <2>2, <2>5, <3>2, <4>1, GpioTypes
              DEF GpioInv, Account, CallsAndPending, Causes, Pending, Wanted, Data, InterruptState
    <3> QED BY <3>1, <3>2
  <2> QED BY <2>3, <2>4, <2>6 DEF GpioInv
<1>3. CASE Nothing(t)
  <2>1. /\ lastValue' = [lastValue EXCEPT ![t] = value[t]] /\ at' = [at EXCEPT ![t] = "poll"]
        /\ at[t] = "compare" /\ UNCHANGED <<state, pin, value, edges, glitches, called>>
    BY <1>3 DEF Nothing
  <2>2. GpioTypeOK' /\ lastValue'[t] = value[t] /\ at'[t] = "poll"
    BY <2>1 DEF GpioInv, GpioTypeOK
  <2>3. ASSUME NEW u \in Pollers \ {t} PROVE Account(u)'
    BY <2>1, AccountSame DEF GpioInv, GpioTypeOK
  <2>4. Account(t)'
    BY <2>1, <2>2, GpioTypes DEF GpioInv, Account, CallsAndPending, Causes, Pending, Wanted
  <2> QED BY <2>2, <2>3, <2>4 DEF GpioInv
<1>4. CASE Callback(t)
  <2>1. /\ at[t] = "compare" /\ Wanted(t, lastValue[t], value[t])
        /\ at' = [at EXCEPT ![t] = "callback"] /\ called' = [called EXCEPT ![t] = @ + 1]
        /\ UNCHANGED <<state, pin, lastValue, value, edges, glitches>>
    BY <1>4 DEF Callback
  <2>2. GpioTypeOK' /\ called'[t] = called[t] + 1 /\ at'[t] = "callback"
    BY <2>1 DEF GpioInv, GpioTypeOK
  <2>3. ASSUME NEW u \in Pollers \ {t} PROVE Account(u)'
    BY <2>1, AccountSame DEF GpioInv, GpioTypeOK
  <2>4. Account(t)'
    BY <2>1, <2>2, GpioTypes DEF GpioInv, Account, CallsAndPending, Causes, Pending, Wanted
  <2> QED BY <2>2, <2>3, <2>4 DEF GpioInv
<1>5. CASE CallbackReturns(t)
  <2>1. /\ lastValue' = [lastValue EXCEPT ![t] = value[t]] /\ at' = [at EXCEPT ![t] = "poll"]
        /\ at[t] = "callback" /\ UNCHANGED <<state, pin, value, edges, glitches, called>>
    BY <1>5 DEF CallbackReturns
  <2>2. GpioTypeOK' /\ lastValue'[t] = value[t] /\ at'[t] = "poll"
    BY <2>1 DEF GpioInv, GpioTypeOK
  <2>3. ASSUME NEW u \in Pollers \ {t} PROVE Account(u)'
    BY <2>1, AccountSame DEF GpioInv, GpioTypeOK
  <2>4. Account(t)'
    BY <2>1, <2>2, GpioTypes DEF GpioInv, Account, CallsAndPending, Causes, Pending, Wanted
  <2> QED BY <2>2, <2>3, <2>4 DEF GpioInv
<1> QED BY <1>1, <1>2, <1>3, <1>4, <1>5 DEF Poll

-----------------------------------------------------------------------------
LEMMA InitSafe == Init => ThreadsInv
<1> SUFFICES ASSUME Init PROVE ThreadsInv
  OBVIOUS
<1>1. PanicInv
  <2>1. PanicTypeOK
    <3>1. <<>> \in Seq(Call)
      OBVIOUS
    <3> QED BY <3>1 DEF Init, PanicInit, PanicTypeOK, DefaultHook, Hook, Whose
  <2>2. \A t \in Threads: DOMAIN panics[t] = {}
    BY DEF Init, PanicInit
  <2> QED BY <2>1, <2>2 DEF Init, PanicInit, PanicInv, ReentryStops, OnlyReentryUncleaned
<1>2. GpioTypeOK
  BY DEF Init, GpioTypeOK, Data, InterruptState
<1>3. \A t \in Pollers: Account(t)
  BY DEF Init, Account, CallsAndPending, Causes
<1> QED BY <1>1, <1>2, <1>3, ThreadsInvByThread

LEMMA NextSafe == ThreadsInv /\ [Next]_vars => ThreadsInv'
<1> SUFFICES ASSUME ThreadsInv, [Next]_vars PROVE ThreadsInv'
  OBVIOUS
<1>1. PanicInv /\ GpioInv
  BY ThreadsInvByThread DEF GpioInv
<1>2. UNCHANGED gpioVars => GpioInv'
  BY <1>1 DEF gpioVars, GpioInv, GpioTypeOK, Account, CallsAndPending, Causes, Pending, Wanted
<1>3. UNCHANGED panicVars => PanicInv'
  BY <1>1, PanicSame
<1>4. ASSUME NEW t \in Pollers, PinChanges(t) PROVE PanicInv' /\ GpioInv'
  BY <1>1, <1>3, <1>4, PinChangeCounted DEF PinChanges
<1>5. ASSUME NEW t \in Pollers, Poll(t) PROVE PanicInv' /\ GpioInv'
  BY <1>1, <1>3, <1>5, PollCounted
     DEF Poll, FirstRead, Read, Nothing, Callback, CallbackReturns
<1>6. ASSUME NEW t \in Pollers, NEW change \in InterruptState, SetInterruptCallback(t, change)
      PROVE  PanicInv' /\ GpioInv'
  BY <1>1, <1>3, <1>6, CallbackSetCounted DEF SetInterruptCallback
<1>7. ASSUME NEW t \in Threads, Panics(t) PROVE PanicInv' /\ GpioInv'
  BY <1>1, <1>2, <1>7, ThreadPanics DEF Panics, AppRuns, InCustomHook, Runs
<1>8. ASSUME NEW t \in Threads, Hooking(t) PROVE PanicInv' /\ GpioInv'
  BY <1>1, <1>2, <1>8, HookChanges, HooksAssumption
     DEF Hooking, TakePanicHook, DefaultHook, Hook, Whose
<1>9. ASSUME NEW t \in Threads, Panicking(t) PROVE PanicInv' /\ GpioInv'
  BY <1>1, <1>2, <1>9, PanicProceeds DEF Panicking
<1>10. ASSUME UNCHANGED vars PROVE PanicInv' /\ GpioInv'
  BY <1>2, <1>3, <1>10 DEF vars, panicVars, gpioVars
<1>11. PanicInv' /\ GpioInv'
  BY <1>4, <1>5, <1>6, <1>7, <1>8, <1>9, <1>10 DEF Next
<1> QED BY <1>11, ThreadsInvByThread DEF GpioInv, Account, ThreadsInv

\* Panics of several threads and within one another, hooks that change, and
\* polling threads with their pins keep their inductive invariant.
THEOREM ThreadsInvariant == Spec => []ThreadsInv
  BY InitSafe, NextSafe, PTL DEF Spec

\* Of the panics nested in one thread, one at most gets through defaultEntry().
THEOREM ReentryEnds == Spec => []ReentryStops
<1>1. ThreadsInv => ReentryStops
  BY DEF ThreadsInv, PanicInv
<1> QED BY <1>1, ThreadsInvariant, PTL

\* A thread that aborts the process has returned from a cleanup, or its panic
\* was taken for a reentry.
THEOREM CleanedUnlessReentry == Spec => []OnlyReentryUncleaned
<1>1. ThreadsInv => OnlyReentryUncleaned
  BY DEF ThreadsInv, PanicInv
<1> QED BY <1>1, ThreadsInvariant, PTL

\* A callback is called for changes of its pin, and for readings that looked
\* like one.
THEOREM CallsCorrect == Spec => []CallsHaveEdges
<1>1. ThreadsInv => CallsHaveEdges
  BY GpioTypes DEF ThreadsInv, CallsHaveEdges, CallsAndPending, Causes, Pending, InterruptState
<1> QED BY <1>1, ThreadsInvariant, PTL

\* No step takes a call of panicHandler() from a thread.
LEMMA LengthKept ==
  ASSUME PanicInv, NEW u \in Threads, NEW t \in Threads,
         PanicHandler(u) \/ Proceeds(u)
  PROVE  Len(panics'[t]) >= Len(panics[t])
<1>1. panics \in [Threads -> Seq(Call)] /\ Len(panics[t]) \in Nat
  BY DEF PanicInv, PanicTypeOK
<1>2. CASE PanicHandler(u)
  <2> DEFINE c == [at |-> "entry", runs |-> hook.entry, claimed |-> FALSE]
  <2>1. c \in Call
    BY DEF PanicInv, PanicTypeOK, Hook, Call
  <2>2. panics'[t] = IF t = u THEN Append(panics[t], c) ELSE panics[t]
    BY <1>1, <1>2 DEF PanicHandler
  <2> HIDE DEF c
  <2> QED BY <1>1, <2>1, <2>2, Appended
<1>3. ASSUME NEW c, Continue(u, c), panics[u] # <<>> PROVE Len(panics'[t]) >= Len(panics[t])
  <2>1. panics'[t] = IF t = u THEN Append(Front(panics[t]), c) ELSE panics[t]
    BY <1>1, <1>3 DEF Continue
  <2>2. CASE t = u
    <3> DEFINE f == Front(panics[u])
    <3>1. f \in Seq(Call) /\ Len(f) = Len(panics[u]) - 1
      BY <1>1, <1>3, FrontOfPanics
    <3> HIDE DEF f
    <3>2. Len(Append(f, c)) = Len(f) + 1
      BY <3>1
    <3> QED BY <1>1, <2>1, <2>2, <3>1, <3>2 DEF f
  <2> QED BY <1>1, <2>1, <2>2
<1>4. ASSUME panics' = panics PROVE Len(panics'[t]) >= Len(panics[t])
  BY <1>1, <1>4
<1>5. CASE Proceeds(u)
  BY <1>3, <1>4, <1>5 DEF Proceeds, EntryChecks, EntryClaims, EntryReturns, ViewReturns,
     CleanupReturns, CustomHaltReturns, Halt, Calls, Abort, At
<1> QED BY <1>2, <1>5

\* A thread that panicked never leaves panicHandler().
THEOREM PanicNeverReturns == Spec => PanicIsFinal
<1> DEFINE Final == \A t \in Threads: panics[t] # <<>> /\ alive' =>
                      Len(panics'[t]) >= Len(panics[t])
<1>1. ASSUME ThreadsInv, Next PROVE Final
  <2> SUFFICES ASSUME NEW t \in Threads PROVE Len(panics'[t]) >= Len(panics[t])
    OBVIOUS
  <2>1. Len(panics[t]) \in Nat /\ PanicInv
    BY <1>1 DEF ThreadsInv, PanicInv, PanicTypeOK
  <2>2. ASSUME panics' = panics PROVE Len(panics'[t]) >= Len(panics[t])
    BY <2>1, <2>2
  <2>3. \/ panics' = panics
        \/ \E u \in Threads: PanicHandler(u) \/ Proceeds(u)
    BY <1>1 DEF Next, PinChanges, Poll, FirstRead, Read, Nothing, Callback, CallbackReturns,
       SetInterruptCallback, Panics, Hooking, Panicking, SetPanicHook, TakePanicHook, panicVars
  <2> QED BY <2>1, <2>2, <2>3, LengthKept
<1>2. ThreadsInv /\ [Next]_vars => [Final]_vars
  BY <1>1
<1> QED BY <1>2, ThreadsInvariant, PTL DEF Spec, PanicIsFinal
===============================================================================
