----------------------------- MODULE Log_proofs -----------------------------
(***************************************************************************)
(* LogInv is inductive, for any number of threads, hooks and calls within  *)
(* calls. First come the sequences, by lemmas for the ways a step changes  *)
(* them; then the invariant, by what a step does to the calls; then what   *)
(* follows from it.                                                        *)
(***************************************************************************)
EXTENDS Log, TLAPS

-----------------------------------------------------------------------------
\* Calls: one more, one that goes on, one less.
LEMMA CallAdded ==
  ASSUME NEW s \in Seq(Call), NEW c \in Call
  PROVE  /\ Append(s, c) \in Seq(Call)
         /\ Len(Append(s, c)) = Len(s) + 1
         /\ DOMAIN Append(s, c) = 1..(Len(s) + 1)
         /\ Append(s, c)[Len(s) + 1] = c
         /\ \A i \in 1..Len(s): Append(s, c)[i] = s[i]
         /\ Append(s, c) # <<>>
         /\ Last(Append(s, c)) = c
  BY DEF Last

LEMMA CallRemoved ==
  ASSUME NEW s \in Seq(Call), s # <<>>
  PROVE  /\ Front(s) \in Seq(Call)
         /\ Len(s) \in Nat \ {0}
         /\ DOMAIN s = 1..Len(s)
         /\ Len(Front(s)) = Len(s) - 1
         /\ DOMAIN Front(s) = 1..(Len(s) - 1)
         /\ \A i \in 1..(Len(s) - 1): Front(s)[i] = s[i]
         /\ Last(s) \in Call
         /\ Last(s) = s[Len(s)]
<1>1. Len(s) \in Nat \ {0} /\ DOMAIN s = 1..Len(s) /\ \A i \in 1..Len(s): s[i] \in Call
  OBVIOUS
<1> QED BY <1>1 DEF Front, Last

LEMMA CallChanged ==
  ASSUME NEW s \in Seq(Call), s # <<>>, NEW c \in Call
  PROVE  /\ Append(Front(s), c) \in Seq(Call)
         /\ Len(Append(Front(s), c)) = Len(s)
         /\ DOMAIN Append(Front(s), c) = DOMAIN s
         /\ DOMAIN s = 1..Len(s)
         /\ \A i \in 1..(Len(s) - 1): Append(Front(s), c)[i] = s[i]
         /\ Append(Front(s), c)[Len(s)] = c
         /\ Append(Front(s), c) # <<>>
         /\ Last(Append(Front(s), c)) = c
<1> DEFINE f == Front(s)
<1>1. /\ f \in Seq(Call) /\ Len(f) = Len(s) - 1 /\ Len(s) \in Nat \ {0}
      /\ \A i \in 1..(Len(s) - 1): f[i] = s[i]
      /\ DOMAIN s = 1..Len(s)
  BY CallRemoved
<1> HIDE DEF f
<1>2. /\ Append(f, c) \in Seq(Call) /\ Len(Append(f, c)) = Len(f) + 1
      /\ DOMAIN Append(f, c) = 1..(Len(f) + 1)
      /\ Append(f, c)[Len(f) + 1] = c /\ \A i \in 1..Len(f): Append(f, c)[i] = f[i]
      /\ Append(f, c) # <<>> /\ Last(Append(f, c)) = c
  BY <1>1, CallAdded
<1>3. Len(f) + 1 = Len(s)
  BY <1>1
<1> QED BY <1>1, <1>2, <1>3 DEF f

LEMMA OneCall == ASSUME NEW s, Len(s) = 1 PROVE s # <<>>
<1> SUFFICES ASSUME s = <<>> PROVE FALSE
  OBVIOUS
<1>1. Len(<<>>) = 0
  OBVIOUS
<1> QED BY <1>1

\* The same of the variable, for the step of one thread.
CallsTyped == calls \in [Threads -> Seq(Call)]

LEMMA Pushed ==
  ASSUME CallsTyped, NEW t \in Threads, NEW c \in Call,
         calls' = [calls EXCEPT ![t] = Append(@, c)]
  PROVE  /\ CallsTyped'
         /\ Len(calls'[t]) = Len(calls[t]) + 1
         /\ Len(calls[t]) \in Nat
         /\ DOMAIN calls'[t] = 1..(Len(calls[t]) + 1)
         /\ DOMAIN calls[t] = 1..Len(calls[t])
         /\ calls'[t][Len(calls[t]) + 1] = c
         /\ \A i \in 1..Len(calls[t]): calls'[t][i] = calls[t][i]
         /\ calls'[t] # <<>>
         /\ Top(t)' = c
         /\ \A u \in Threads \ {t}: calls'[u] = calls[u]
<1>1. calls[t] \in Seq(Call) /\ calls'[t] = Append(calls[t], c)
  BY DEF CallsTyped
<1>2. CallsTyped'
  BY <1>1, CallAdded DEF CallsTyped
<1> QED BY <1>1, <1>2, CallAdded DEF CallsTyped, Top

LEMMA Popped ==
  ASSUME CallsTyped, NEW t \in Threads, calls[t] # <<>>,
         calls' = [calls EXCEPT ![t] = Front(@)]
  PROVE  /\ CallsTyped'
         /\ Len(calls'[t]) = Len(calls[t]) - 1
         /\ Len(calls[t]) \in Nat \ {0}
         /\ DOMAIN calls'[t] = 1..(Len(calls[t]) - 1)
         /\ DOMAIN calls[t] = 1..Len(calls[t])
         /\ \A i \in 1..(Len(calls[t]) - 1): calls'[t][i] = calls[t][i]
         /\ Len(calls[t]) = 1 <=> calls'[t] = <<>>
         /\ Top(t) = calls[t][Len(calls[t])]
         /\ Top(t) \in Call
         /\ \A u \in Threads \ {t}: calls'[u] = calls[u]
<1>1. calls[t] \in Seq(Call) /\ calls'[t] = Front(calls[t])
  BY DEF CallsTyped
<1>2. CallsTyped'
  BY <1>1, CallRemoved DEF CallsTyped
<1>3. calls'[t] \in Seq(Call) /\ Len(calls'[t]) = Len(calls[t]) - 1 /\ Len(calls[t]) \in Nat \ {0}
  BY <1>1, CallRemoved
<1>4. Len(calls[t]) = 1 <=> calls'[t] = <<>>
  <2> DEFINE n == Len(calls[t])  r == calls'[t]
  <2>1. r \in Seq(Call) /\ Len(r) = n - 1 /\ n \in Nat \ {0}
    BY <1>3
  <2> HIDE DEF n, r
  <2>2. n = 1 <=> r = <<>>
    BY <2>1
  <2> QED BY <2>2 DEF n, r
<1> QED BY <1>1, <1>2, <1>3, <1>4, CallRemoved DEF CallsTyped, Top

LEMMA Continued ==
  ASSUME CallsTyped, NEW t \in Threads, calls[t] # <<>>, NEW c \in Call, Becomes(t, c)
  PROVE  /\ CallsTyped'
         /\ Len(calls'[t]) = Len(calls[t])
         /\ Len(calls[t]) \in Nat \ {0}
         /\ DOMAIN calls'[t] = DOMAIN calls[t]
         /\ DOMAIN calls[t] = 1..Len(calls[t])
         /\ \A i \in 1..(Len(calls[t]) - 1): calls'[t][i] = calls[t][i]
         /\ calls'[t][Len(calls[t])] = c
         /\ calls'[t] # <<>>
         /\ Top(t)' = c
         /\ Top(t) = calls[t][Len(calls[t])]
         /\ Top(t) \in Call
         /\ \A u \in Threads \ {t}: calls'[u] = calls[u]
<1>1. calls[t] \in Seq(Call) /\ calls'[t] = Append(Front(calls[t]), c)
  BY DEF CallsTyped, Becomes
<1>2. CallsTyped'
  BY <1>1, CallChanged DEF CallsTyped, Becomes
<1> QED BY <1>1, <1>2, CallChanged, CallRemoved DEF CallsTyped, Top, Becomes

-----------------------------------------------------------------------------
\* Scripts: flushing is never turned on without a flush that follows.
Balanced(s) ==
  \A i \in DOMAIN s: s[i].do = "on" => i + 1 \in DOMAIN s /\ s[i + 1].do = "flush"
Plain(s) == s \in Seq(Item) /\ \A i \in DOMAIN s: s[i].do # "on"

LEMMA Items ==
  ASSUME NEW level \in LogLevel
  PROVE  /\ Part(level) \in Item /\ Part(level).do = "log"
         /\ Line(level) \in Item /\ Line(level).do = "log"
         /\ \A what \in {"log", "status", "handler", "off", "on", "flush", "abort"}:
              Do(what) \in Item /\ Do(what).do = what
  BY DEF Part, Line, Do, Item, LogLevel, NO_LOG, TRACE

LEMMA PlainPair ==
  ASSUME NEW a \in Item, NEW b \in Item, a.do # "on", b.do # "on"
  PROVE  Plain(<<a, b>>)
  BY DEF Plain

LEMMA PlainJoined ==
  ASSUME NEW s, NEW r, Plain(s), Plain(r)
  PROVE  Plain(s \o r)
<1>1. /\ s \in Seq(Item) /\ r \in Seq(Item)
      /\ s \o r \in Seq(Item) /\ Len(s \o r) = Len(s) + Len(r)
      /\ Len(s) \in Nat /\ Len(r) \in Nat
      /\ \A i \in 1..Len(s): (s \o r)[i] = s[i]
      /\ \A i \in (Len(s) + 1)..(Len(s) + Len(r)): (s \o r)[i] = r[i - Len(s)]
  BY DEF Plain
<1>2. ASSUME NEW i \in 1..(Len(s) + Len(r)) PROVE (s \o r)[i].do # "on"
  <2>1. CASE i \in 1..Len(s)
    BY <1>1, <2>1 DEF Plain
  <2>2. CASE i \notin 1..Len(s)
    <3>1. i \in (Len(s) + 1)..(Len(s) + Len(r)) /\ i - Len(s) \in 1..Len(r)
      BY <1>1, <2>2
    <3> QED BY <1>1, <3>1 DEF Plain
  <2> QED BY <2>1, <2>2
<1> QED BY <1>1, <1>2 DEF Plain

LEMMA Library ==
  ASSUME NEW level \in LogLevel
  PROVE  /\ Plain(Opened(level) \o <<Line(level), Do("abort")>>)
         /\ Plain(Opened(level) \o <<Line(level)>>)
         /\ Plain(Sizes(level))
<1> DEFINE p == Part(level)  l == Line(level)  s == Do("status")  a == Do("abort")
<1>1. /\ p \in Item /\ p.do # "on" /\ l \in Item /\ l.do # "on"
      /\ s \in Item /\ s.do # "on" /\ a \in Item /\ a.do # "on"
  BY Items
<1> HIDE DEF p, l, s, a
<1>2. /\ Plain(<<p, p>>) /\ Plain(<<l, a>>) /\ Plain(<<p, l>>)
  BY <1>1, PlainPair
<1>3. Plain(<<l>>)
  BY <1>1 DEF Plain
<1>4. Plain(<<l, p, s, l>>)
  BY <1>1 DEF Plain
<1>5. Plain(<<p, l>> \o <<p, p>>)
  BY <1>2, PlainJoined
<1>6. Plain((<<p, l>> \o <<p, p>>) \o <<l, p, s, l>>)
  BY <1>4, <1>5, PlainJoined
<1>7. Plain(<<p, p>> \o <<l, a>>) /\ Plain(<<p, p>> \o <<l>>)
  BY <1>2, <1>3, PlainJoined
<1> QED BY <1>6, <1>7 DEF Opened, Sizes, p, l, s, a

LEMMA PlainBalanced == ASSUME NEW s, Plain(s) PROVE s \in Seq(Item) /\ Balanced(s)
  BY DEF Plain, Balanced

LEMMA RestBalanced ==
  ASSUME NEW s \in Seq(Item), s # <<>>, Balanced(s)
  PROVE  /\ Tail(s) \in Seq(Item) /\ Balanced(Tail(s))
         /\ Head(s).do = "on" => Tail(s) # <<>> /\ Head(Tail(s)).do = "flush"
<1>1. /\ Len(s) \in Nat \ {0} /\ DOMAIN s = 1..Len(s)
      /\ Tail(s) \in Seq(Item) /\ Len(Tail(s)) = Len(s) - 1
      /\ \A i \in 1..(Len(s) - 1): Tail(s)[i] = s[i + 1]
      /\ Head(s) = s[1]
  OBVIOUS
<1>2. ASSUME NEW i \in 1..(Len(s) - 1), Tail(s)[i].do = "on"
      PROVE  i + 1 \in 1..(Len(s) - 1) /\ Tail(s)[i + 1].do = "flush"
  <2>1. i + 1 \in 1..Len(s) /\ s[i + 1].do = "on"
    BY <1>1, <1>2
  <2>2. (i + 1) + 1 \in 1..Len(s) /\ s[(i + 1) + 1].do = "flush"
    BY <1>1, <2>1 DEF Balanced
  <2>3. i + 1 \in 1..(Len(s) - 1)
    BY <1>1, <2>2
  <2> QED BY <1>1, <2>2, <2>3
<1>3. ASSUME Head(s).do = "on" PROVE Tail(s) # <<>> /\ Head(Tail(s)).do = "flush"
  <2>1. 1 \in 1..Len(s) /\ s[1].do = "on"
    BY <1>1, <1>3
  <2>2. 1 + 1 \in 1..Len(s) /\ s[1 + 1].do = "flush"
    BY <1>1, <2>1 DEF Balanced
  <2> DEFINE r == Tail(s)
  <2>3. r \in Seq(Item) /\ Len(r) \in Nat \ {0} /\ r[1].do = "flush"
    BY <1>1, <2>2
  <2> HIDE DEF r
  <2>4. r # <<>> /\ Head(r) = r[1]
    BY <2>3
  <2> QED BY <2>3, <2>4 DEF r
<1> QED BY <1>1, <1>2, <1>3 DEF Balanced

LEMMA PrependedBalanced ==
  ASSUME NEW s \in Seq(Item), Balanced(s), NEW a \in Item, NEW b \in Item,
         a.do # "on", b.do # "on"
  PROVE  <<a, b>> \o s \in Seq(Item) /\ Balanced(<<a, b>> \o s)
<1> DEFINE r == <<a, b>> \o s
<1>1. /\ r \in Seq(Item) /\ Len(s) \in Nat /\ DOMAIN r = 1..(Len(s) + 2) /\ DOMAIN s = 1..Len(s)
      /\ r[1] = a /\ r[2] = b /\ \A i \in 3..(Len(s) + 2): r[i] = s[i - 2]
  OBVIOUS
<1>2. ASSUME NEW i \in 1..(Len(s) + 2), r[i].do = "on"
      PROVE  i + 1 \in 1..(Len(s) + 2) /\ r[i + 1].do = "flush"
  <2>1. i \in 3..(Len(s) + 2) /\ i - 2 \in 1..Len(s)
    BY <1>1, <1>2
  <2>2. s[i - 2].do = "on"
    BY <1>1, <1>2, <2>1
  <2>3. (i - 2) + 1 \in 1..Len(s) /\ s[(i - 2) + 1].do = "flush"
    BY <1>1, <2>1, <2>2 DEF Balanced
  <2>4. i + 1 \in 3..(Len(s) + 2) /\ (i + 1) - 2 = (i - 2) + 1
    BY <2>1, <2>3
  <2> QED BY <1>1, <2>3, <2>4
<1> QED BY <1>1, <1>2 DEF Balanced

-----------------------------------------------------------------------------
\* A step of log() that stays in its call.
LEMMA GoesOn ==
  ASSUME LogInv, NEW t \in Threads, calls[t] # <<>>, NEW c \in Call, Becomes(t, c),
         ~c.hidden, c.ln = Top(t).ln, c.at # "store",
         c.at = "return" /\ c.ln => c.fn \notin open',
         state' = Stored(Top(t)), open' \subseteq Whose, unflushed' \in BOOLEAN,
         UNCHANGED <<build, hook, hasInitialized, shouldFlush, copying, script, alive,
                     alone, torn>>,
         ~torn /\ hook["view"] = hook["static"] /\ Whole(Top(t)) => Whole(c)'
  PROVE  LogInv'
<1>1. CallsTyped
  BY DEF LogInv, TypeOK, CallsTyped
<1>2. /\ CallsTyped' /\ Len(calls'[t]) = Len(calls[t]) /\ Len(calls[t]) \in Nat \ {0}
      /\ DOMAIN calls'[t] = DOMAIN calls[t] /\ DOMAIN calls[t] = 1..Len(calls[t])
      /\ \A i \in 1..(Len(calls[t]) - 1): calls'[t][i] = calls[t][i]
      /\ calls'[t][Len(calls[t])] = c /\ calls'[t] # <<>> /\ Top(t)' = c /\ Top(t) \in Call
      /\ \A u \in Threads \ {t}: calls'[u] = calls[u]
  BY <1>1, Continued
<1>3. state' \in LogType
  BY <1>2 DEF Stored, Call, LogInv, TypeOK
<1>4. TypeOK'
  BY <1>2, <1>3 DEF LogInv, TypeOK, CallsTyped
<1>5. CallsInv'
  <2>1. ASSUME NEW i \in DOMAIN calls'[t], calls'[t][i].hidden PROVE calls'[t][i].at = "store"
    <3>1. i \in 1..(Len(calls[t]) - 1)
      BY <1>2, <2>1
    <3> QED BY <1>2, <2>1, <3>1 DEF LogInv, CallsInv
  <2>2. copying[t] = <<>>
    BY DEF LogInv, CallsInv
  <2> QED BY <1>2, <2>1, <2>2 DEF LogInv, CallsInv
<1>6. ASSUME NEW u \in Threads, Only(u) PROVE u = t /\ Only(t)'
  BY <1>2, <1>6 DEF Only
<1>7. ~Silent
  BY DEF Silent
<1>8. (c.ln <=> Stored(c)' \in Ended) <=> (Top(t).ln <=> Stored(Top(t)) \in Ended)
  BY DEF Stored
<1>9. AloneInv'
  BY <1>2, <1>6, <1>7, <1>8 DEF LogInv, AloneInv
<1>10. WholeInv'
  BY <1>2, <1>6, <1>7 DEF LogInv, WholeInv
<1>11. NothingStuck'
  BY <1>2 DEF NothingStuck
<1> QED BY <1>4, <1>5, <1>9, <1>10, <1>11 DEF LogInv

\* The end of a call.
LEMMA Ends ==
  ASSUME LogInv, NEW t \in Threads, calls[t] # <<>>, Pops(t),
         Top(t).at = "return" \/ Top(t).hidden,
         state' = Stored(Top(t)),
         unflushed' = (unflushed /\ (Top(t).hidden \/ ~shouldFlush)),
         UNCHANGED <<build, hook, hasInitialized, shouldFlush, copying, script, alive, open>>
  PROVE  LogInv'
<1>1. CallsTyped
  BY DEF LogInv, TypeOK, CallsTyped
<1>2. /\ CallsTyped' /\ Len(calls[t]) \in Nat \ {0}
      /\ DOMAIN calls'[t] = 1..(Len(calls[t]) - 1) /\ DOMAIN calls[t] = 1..Len(calls[t])
      /\ \A i \in 1..(Len(calls[t]) - 1): calls'[t][i] = calls[t][i]
      /\ Len(calls[t]) = 1 <=> calls'[t] = <<>>
      /\ Top(t) = calls[t][Len(calls[t])] /\ Top(t) \in Call
      /\ \A u \in Threads \ {t}: calls'[u] = calls[u]
  BY <1>1, Popped DEF Pops
<1>3. state' \in LogType /\ unflushed' \in BOOLEAN /\ alone' \in BOOLEAN /\ torn' \in BOOLEAN
  <2>1. state' \in LogType
    BY <1>2 DEF Stored, Call, LogInv, TypeOK
  <2>2. unflushed' \in BOOLEAN /\ alone' \in BOOLEAN /\ torn' \in BOOLEAN
    BY DEF Pops
  <2> QED BY <2>1, <2>2
<1>4. TypeOK'
  BY <1>2, <1>3 DEF LogInv, TypeOK, CallsTyped
<1>5. CallsInv'
  <2>1. ASSUME NEW i \in DOMAIN calls'[t], calls'[t][i].hidden PROVE calls'[t][i].at = "store"
    BY <1>2, <2>1 DEF LogInv, CallsInv
  <2>2. copying[t] = <<>>
    BY DEF LogInv, CallsInv
  <2> QED BY <1>2, <2>1, <2>2 DEF LogInv, CallsInv
<1>6. ASSUME NEW u \in Threads, Only(u) PROVE u = t /\ Silent'
  BY <1>2, <1>6 DEF Only, Silent
<1>7. ~Silent
  BY DEF Silent
<1>8. alone => Silent' /\ (Top(t).ln <=> state' \in Ended)
  BY <1>6, <1>7 DEF LogInv, AloneInv
<1>9. Len(calls[t]) = 1 /\ OthersIdle(t) => Silent'
  BY <1>2 DEF OthersIdle, Idle, Silent
<1>10. AloneInv'
  BY <1>8, <1>9 DEF AloneInv, Pops
<1>11. ASSUME ~torn' PROVE Silent' /\ (state' \in Ended => open = {}) /\ \A a, b \in open: a = b
  <2>1. CASE ~torn
    <3>1. Silent' /\ Whole(Top(t))
      BY <1>6, <1>7, <2>1 DEF LogInv, WholeInv
    <3>2. CASE Top(t).hidden
      BY <3>1, <3>2 DEF Whole
    <3>3. CASE ~Top(t).hidden
      BY <3>1, <3>3 DEF Whole
    <3> QED BY <3>2, <3>3
  <2>2. CASE torn
    <3>1. alone /\ Top(t).ln /\ open = {}
      BY <1>11, <2>2 DEF Pops
    <3> QED BY <1>8, <3>1
  <2> QED BY <2>1, <2>2
<1>12. WholeInv'
  BY <1>11 DEF WholeInv
<1>13. NothingStuck'
  <2> SUFFICES ASSUME unflushed', shouldFlush' PROVE NothingStuck'
    BY DEF NothingStuck
  <2>1. unflushed /\ shouldFlush /\ Top(t).hidden
    OBVIOUS
  <2>2. CASE \E u \in Threads: script[u] # <<>> /\ Head(script[u]).do = "flush"
    BY <2>2 DEF NothingStuck
  <2>3. CASE \E u \in Threads: \E i \in DOMAIN calls[u]: ~calls[u][i].hidden
    <3>1. PICK u \in Threads: \E i \in DOMAIN calls[u]: ~calls[u][i].hidden
      BY <2>3
    <3>2. PICK i \in DOMAIN calls[u]: ~calls[u][i].hidden
      BY <3>1
    <3>3. i \in DOMAIN calls'[u] /\ calls'[u][i] = calls[u][i]
      BY <1>2, <2>1, <3>2
    <3> QED BY <3>2, <3>3 DEF NothingStuck
  <2> QED BY <2>1, <2>2, <2>3 DEF LogInv, NothingStuck
<1> QED BY <1>4, <1>5, <1>10, <1>12, <1>13 DEF LogInv

\* Scripts that are gone on with, begun or dropped, keep their shape, as long
\* as no flush that is to come is lost.
ScriptsKept ==
  /\ script' \in [Threads -> Seq(Item)]
  /\ \A u \in Threads: Balanced(script'[u])

\* The beginning of a call.
LEMMA Begins ==
  ASSUME LogInv, NEW t \in Threads, NEW level \in TRACE..CRIT, NEW ln \in BOOLEAN,
         Starts(t, level, ln), copying[t] = <<>>, ScriptsKept,
         \A u \in Threads: script[u] # <<>> /\ Head(script[u]).do \in {"flush", "handler"}
                             => script'[u] = script[u],
         \A u \in Threads: copying[u] # <<>> => script'[u] = script[u]
  PROVE  LogInv'
<1> DEFINE c == [at |-> "store", fn |-> "default", ln |-> ln,
                 new |-> IF ln THEN FinalizedState(state) ELSE UpdatedState(state),
                 hidden |-> build > level, trace |-> level = TRACE]
<1>1. c \in Call
  BY DEF Call, LogType, Whose, FinalizedState, UpdatedState
<1>2. PICK d \in Call: d = c
  BY <1>1
<1>3. /\ d.at = "store" /\ d.ln = ln /\ d.hidden = (build > level) /\ d.trace = (level = TRACE)
      /\ d.new = IF ln THEN FinalizedState(state) ELSE UpdatedState(state)
      /\ calls' = [calls EXCEPT ![t] = Append(@, d)]
  BY <1>2 DEF Starts
<1>4. CallsTyped
  BY DEF LogInv, TypeOK, CallsTyped
<1>5. /\ CallsTyped' /\ Len(calls'[t]) = Len(calls[t]) + 1 /\ Len(calls[t]) \in Nat
      /\ DOMAIN calls'[t] = 1..(Len(calls[t]) + 1) /\ DOMAIN calls[t] = 1..Len(calls[t])
      /\ calls'[t][Len(calls[t]) + 1] = d
      /\ \A i \in 1..Len(calls[t]): calls'[t][i] = calls[t][i]
      /\ calls'[t] # <<>> /\ Top(t)' = d
      /\ \A u \in Threads \ {t}: calls'[u] = calls[u]
  BY <1>3, <1>4, Pushed
<1> HIDE DEF c
<1>6. /\ UNCHANGED <<build, state, hook, hasInitialized, shouldFlush, copying, alive, open, unflushed>>
      /\ alone' = Quiet
      /\ torn' = (torn \/ ~Quiet \/ open # Unfinished(level) \/ hook["view"] # hook["static"])
  BY DEF Starts
<1>7. TypeOK'
  <2>1. alone' \in BOOLEAN /\ torn' \in BOOLEAN
    BY <1>6 DEF Quiet
  <2> QED BY <1>5, <1>6, <2>1 DEF LogInv, TypeOK, CallsTyped, ScriptsKept
<1>8. CallsInv'
  <2>1. ASSUME NEW i \in DOMAIN calls'[t], calls'[t][i].hidden PROVE calls'[t][i].at = "store"
    <3>1. i \in 1..Len(calls[t]) \/ i = Len(calls[t]) + 1
      BY <1>5
    <3> QED BY <1>3, <1>5, <2>1, <3>1 DEF LogInv, CallsInv
  <2>2. \A u \in Threads: \A i \in DOMAIN calls'[u]: calls'[u][i].hidden => calls'[u][i].at = "store"
    BY <1>5, <2>1 DEF LogInv, CallsInv
  <2>3. ASSUME NEW u \in Threads, copying'[u] # <<>>
        PROVE  calls'[u] = <<>> /\ (script'[u] # <<>> => Head(script'[u]).do = "handler")
    BY <1>5, <1>6, <2>3 DEF LogInv, CallsInv
  <2> QED BY <2>2, <2>3 DEF CallsInv, ScriptsKept, Balanced
<1>9. Quiet => Only(t)'
  <2> SUFFICES ASSUME Quiet PROVE Only(t)'
    OBVIOUS
  <2>1. calls[t] = <<>> /\ Len(calls[t]) = 0
    BY DEF Quiet, Idle
  <2> QED BY <1>5, <1>6, <2>1 DEF Quiet, Idle, Only
<1>10. ln <=> d.new \in Ended
  BY <1>3 DEF FinalizedState, UpdatedState, Ended
<1>11. AloneInv'
  BY <1>3, <1>5, <1>6, <1>9, <1>10 DEF AloneInv, Stored
<1>12. open = Unfinished(level) => Whole(d)'
  <2> SUFFICES ASSUME open = Unfinished(level) PROVE Whole(d)'
    OBVIOUS
  <2>1. d.new \in {"START", "STARTEND"} <=> state \in Ended
    BY <1>3 DEF FinalizedState, UpdatedState, Ended, LogInv, TypeOK, LogType
  <2>2. d.hidden => open = {}
    BY <1>3 DEF Unfinished, Prints
  <2>3. ~d.hidden =>
          open = IF d.new \in {"START", "STARTEND"} THEN {}
                 ELSE {IF d.trace THEN hook["trace"] ELSE hook["view"]}
    <3>1. level = TRACE <=> ~(level > TRACE)
      BY DEF TRACE, CRIT
    <3> QED BY <1>3, <2>1, <3>1 DEF Unfinished, Prints
  <2> QED BY <1>3, <1>6, <1>10, <2>2, <2>3 DEF Whole, Stored
<1>13. WholeInv'
  BY <1>5, <1>6, <1>9, <1>12 DEF WholeInv
<1>14. NothingStuck'
  <2> SUFFICES ASSUME unflushed', shouldFlush' PROVE NothingStuck'
    BY DEF NothingStuck
  <2>1. CASE \E u \in Threads: script[u] # <<>> /\ Head(script[u]).do = "flush"
    BY <2>1 DEF NothingStuck
  <2>2. CASE \E u \in Threads: \E i \in DOMAIN calls[u]: ~calls[u][i].hidden
    <3>1. PICK u \in Threads: \E i \in DOMAIN calls[u]: ~calls[u][i].hidden
      BY <2>2
    <3>2. PICK i \in DOMAIN calls[u]: ~calls[u][i].hidden
      BY <3>1
    <3>3. i \in DOMAIN calls'[u] /\ calls'[u][i] = calls[u][i]
      BY <1>5
    <3> QED BY <3>2, <3>3 DEF NothingStuck
  <2> QED BY <1>6, <2>1, <2>2 DEF LogInv, NothingStuck
<1> QED BY <1>7, <1>8, <1>11, <1>13, <1>14 DEF LogInv

\* A step outside of log() and of the hook.
LEMMA Elsewhere ==
  ASSUME LogInv, ScriptsKept,
         hasInitialized' \in BOOLEAN, shouldFlush' \in BOOLEAN, alive' \in BOOLEAN,
         unflushed' \in BOOLEAN,
         UNCHANGED <<build, state, hook, calls, copying, open, alone, torn>>,
         \A u \in Threads: copying[u] # <<>> /\ script'[u] # <<>> => Head(script'[u]).do = "handler",
         NothingStuck'
  PROVE  LogInv'
<1>1. TypeOK'
  BY DEF LogInv, TypeOK, ScriptsKept
<1>2. CallsInv'
  BY DEF LogInv, CallsInv, ScriptsKept, Balanced
<1>3. AloneInv'
  BY DEF LogInv, AloneInv, Only, Silent, Stored, Top
<1>4. WholeInv'
  BY DEF LogInv, WholeInv, Only, Silent, Whole, Stored, Top
<1> QED BY <1>1, <1>2, <1>3, <1>4 DEF LogInv

LEMMA HookStep ==
  ASSUME LogInv, NEW t \in Threads, NEW h \in LogHook, SetHook(t, h)
  PROVE  LogInv'
<1>1. /\ UNCHANGED <<build, state, hook, shouldFlush, calls, script, alive, open, unflushed>>
      /\ hasInitialized' = FALSE /\ alone' = Quiet /\ torn' = (torn \/ ~Quiet)
      /\ calls[t] = <<>> /\ (script[t] # <<>> => Head(script[t]).do = "handler")
      /\ copying' = [copying EXCEPT ![t] = [i \in 1 .. Len(Fields) |-> <<Fields[i], h[Fields[i]]>>]]
  BY DEF SetHook, Free
<1>2. copying' \in [Threads -> Seq({Fields[i]: i \in 1 .. 5} \X Whose)]
  <2>1. Len(Fields) = 5
    BY DEF Fields
  <2>2. \A i \in 1 .. 5: Fields[i] \in {"view", "static", "setup", "flush", "trace"}
    BY DEF Fields
  <2>3. \A i \in 1 .. 5: h[Fields[i]] \in Whose
    BY <2>2 DEF LogHook
  <2>4. \A i \in 1 .. 5: <<Fields[i], h[Fields[i]]>> \in {Fields[j]: j \in 1 .. 5} \X Whose
    BY <2>3
  <2>5. [i \in 1 .. Len(Fields) |-> <<Fields[i], h[Fields[i]]>>] \in Seq({Fields[i]: i \in 1 .. 5} \X Whose)
    BY <2>1, <2>4
  <2> QED BY <1>1, <2>5 DEF LogInv, TypeOK
<1>3. TypeOK'
  BY <1>1, <1>2 DEF LogInv, TypeOK, Quiet
<1>4. CallsInv'
  BY <1>1 DEF LogInv, CallsInv, TypeOK
<1>5. alone' => Silent'
  BY <1>1 DEF Quiet, Idle, Silent
<1>6. ~torn' => ~torn /\ Silent /\ \A u \in Threads: ~Only(u)
  <2> SUFFICES ASSUME ~torn' PROVE ~torn /\ Silent /\ \A u \in Threads: ~Only(u)
    OBVIOUS
  <2>1. ~torn /\ \A u \in Threads: calls[u] = <<>>
    BY <1>1 DEF Quiet, Idle
  <2>2. \A u \in Threads: Len(calls[u]) = 0
    BY <2>1
  <2> QED BY <2>1, <2>2 DEF Silent, Only
<1>7. AloneInv' /\ WholeInv'
  BY <1>1, <1>5, <1>6 DEF LogInv, AloneInv, WholeInv, Silent
<1>8. NothingStuck'
  BY <1>1 DEF LogInv, NothingStuck
<1> QED BY <1>3, <1>4, <1>7, <1>8 DEF LogInv

LEMMA CopyStep ==
  ASSUME LogInv, NEW t \in Threads, CopiesPointer(t)
  PROVE  LogInv'
<1> DEFINE s == copying[t]
<1>1. /\ UNCHANGED <<build, state, hasInitialized, shouldFlush, calls, script, alive, open, torn>>
      /\ s # <<>> /\ copying' = [copying EXCEPT ![t] = Tail(s)]
      /\ hook' = [hook EXCEPT ![Head(s)[1]] = Head(s)[2]]
      /\ alone' = (alone \/ (Len(s) = 1 /\ OthersIdle(t)))
      /\ unflushed' => unflushed
      /\ unflushed' \in BOOLEAN
  BY DEF CopiesPointer
<1>2. s \in Seq({Fields[i]: i \in 1 .. 5} \X Whose)
  BY DEF LogInv, TypeOK
<1>3. Tail(s) \in Seq({Fields[i]: i \in 1 .. 5} \X Whose) /\ Head(s) \in {Fields[i]: i \in 1 .. 5} \X Whose
  BY <1>1, <1>2
<1>4. Head(s)[1] \in {"view", "static", "setup", "flush", "trace"} /\ Head(s)[2] \in Whose
  <2>1. \A i \in 1 .. 5: Fields[i] \in {"view", "static", "setup", "flush", "trace"}
    BY DEF Fields
  <2> QED BY <1>3, <2>1
<1>5. hook' \in LogHook
  BY <1>1, <1>4 DEF LogInv, TypeOK, LogHook
<1>6. copying' \in [Threads -> Seq({Fields[i]: i \in 1 .. 5} \X Whose)]
  BY <1>1, <1>3 DEF LogInv, TypeOK
<1>7. calls[t] = <<>> /\ (script[t] # <<>> => Head(script[t]).do = "handler")
  BY <1>1 DEF LogInv, CallsInv
<1> HIDE DEF s
<1>8. TypeOK'
  BY <1>1, <1>5, <1>6 DEF LogInv, TypeOK
<1>9. CallsInv'
  BY <1>1, <1>7 DEF LogInv, CallsInv, TypeOK
<1>10. \A u \in Threads: ~Only(u)
  BY <1>1 DEF Only, s
<1>11. AloneInv'
  BY <1>1, <1>7, <1>10 DEF LogInv, AloneInv, Silent, OthersIdle, Idle
<1>12. WholeInv'
  BY <1>1, <1>10 DEF LogInv, WholeInv, Silent
<1>13. NothingStuck'
  BY <1>1 DEF LogInv, NothingStuck
<1> QED BY <1>8, <1>9, <1>11, <1>12, <1>13 DEF LogInv

LEMMA CallStep ==
  ASSUME LogInv, NEW t \in Threads, NEW level \in TRACE..CRIT, Calls(t, level)
  PROVE  LogInv'
<1>1. PICK ln \in BOOLEAN:
        /\ Starts(t, level, ln)
        /\ \/ Free(t) /\ UNCHANGED script
           \/ InHook(t) /\ UNCHANGED script
           \/ /\ Upcoming(t, "log")
              /\ script' = [script EXCEPT ![t] = Tail(@)]
  BY DEF Calls
<1>2. \A u \in Threads: script[u] \in Seq(Item) /\ Balanced(script[u])
  BY DEF LogInv, TypeOK, CallsInv, Balanced
<1>3. script \in [Threads -> Seq(Item)]
  BY DEF LogInv, TypeOK
<1>4. CASE (Free(t) \/ InHook(t)) /\ UNCHANGED script
  <2>1. copying[t] = <<>>
    BY <1>4 DEF Free, InHook, LogInv, CallsInv
  <2> QED BY <1>1, <1>2, <1>3, <1>4, <2>1, Begins DEF ScriptsKept
<1>5. CASE Upcoming(t, "log") /\ script' = [script EXCEPT ![t] = Tail(@)]
  <2>1. script[t] # <<>> /\ Head(script[t]).do = "log" /\ copying[t] = <<>>
    BY <1>5 DEF Upcoming, LogInv, CallsInv
  <2>2. ScriptsKept
    BY <1>2, <1>3, <1>5, <2>1, RestBalanced DEF ScriptsKept
  <2>3. \A u \in Threads: u # t => script'[u] = script[u]
    BY <1>3, <1>5
  <2>4. \A u \in Threads: script[u] # <<>> /\ Head(script[u]).do \in {"flush", "handler"}
                             => script'[u] = script[u]
    BY <2>1, <2>3
  <2>5. \A u \in Threads: copying[u] # <<>> => script'[u] = script[u]
    BY <2>1, <2>3
  <2> QED BY <1>1, <2>1, <2>2, <2>4, <2>5, Begins
<1> QED BY <1>1, <1>4, <1>5

LEMMA TopTyped ==
  ASSUME LogInv, NEW t \in Threads, calls[t] # <<>>
  PROVE  Top(t) \in Call /\ (Top(t).hidden => Top(t).at = "store")
<1>1. calls[t] \in Seq(Call)
  BY DEF LogInv, TypeOK
<1>2. Top(t) \in Call /\ Top(t) = calls[t][Len(calls[t])] /\ Len(calls[t]) \in DOMAIN calls[t]
  BY <1>1, CallRemoved DEF Top
<1> QED BY <1>2 DEF LogInv, CallsInv

LEMMA StoreStep ==
  ASSUME LogInv, NEW t \in Threads, Stores(t)
  PROVE  LogInv'
<1>1. calls[t] # <<>> /\ Top(t).at = "store" /\ Top(t) \in Call /\ state' = Stored(Top(t))
  BY TopTyped DEF Stores, At, Stored
<1>2. CASE Top(t).hidden
  BY <1>1, <1>2, Ends DEF Stores, LogInv, TypeOK
<1>3. CASE ~Top(t).hidden
  <2>1. PICK c \in Call: c = [Top(t) EXCEPT !.at = "flush", !.new = "END"]
    BY <1>1 DEF Call, LogType
  <2>2. /\ c.at = "flush" /\ c.ln = Top(t).ln /\ c.hidden = Top(t).hidden /\ c.trace = Top(t).trace
    BY <1>1, <2>1 DEF Call
  <2>3. Whole(Top(t)) /\ UNCHANGED <<hook, open>> => Whole(c)'
    BY <1>1, <1>3, <2>2 DEF Whole, Stored
  <2> QED BY <1>1, <1>3, <2>1, <2>2, <2>3, GoesOn DEF Stores, LogInv, TypeOK
<1> QED BY <1>2, <1>3

LEMMA ReturnStep ==
  ASSUME LogInv, NEW t \in Threads, Returns(t)
  PROVE  LogInv'
<1>1. calls[t] # <<>> /\ Top(t).at = "return" /\ Top(t) \in Call /\ ~Top(t).hidden
  BY TopTyped DEF Returns, At
<1>2. state' = Stored(Top(t))
  BY <1>1 DEF Stored, Returns
<1> QED BY <1>1, <1>2, Ends DEF Returns

LEMMA FlushStep ==
  ASSUME LogInv, NEW t \in Threads, Flushes(t)
  PROVE  LogInv'
<1>1. calls[t] # <<>> /\ Top(t).at = "flush" /\ Top(t) \in Call /\ ~Top(t).hidden
  BY TopTyped DEF Flushes, At
<1>2. PICK c \in Call: c = [Top(t) EXCEPT !.at = "kind", !.fn = IF shouldFlush THEN hook["flush"] ELSE "default"]
  BY <1>1 DEF Call, Whose, LogInv, TypeOK, LogHook
<1>3. /\ c.at = "kind" /\ c.ln = Top(t).ln /\ c.hidden = Top(t).hidden /\ c.trace = Top(t).trace
  BY <1>1, <1>2 DEF Call
<1>4. Whole(Top(t)) /\ UNCHANGED <<hook, open, state>> => Whole(c)'
  BY <1>1, <1>3 DEF Whole, Stored
<1> QED BY <1>1, <1>2, <1>3, <1>4, GoesOn DEF Flushes, LogInv, TypeOK, Stored

\* The two looks at the state.
LEMMA LookStep ==
  ASSUME LogInv, NEW t \in Threads, LooksAtType(t) \/ LooksForEnd(t)
  PROVE  LogInv'
<1>1. /\ calls[t] # <<>> /\ Top(t).at \in {"kind", "decide"} /\ Top(t) \in Call
      /\ ~Top(t).hidden
  BY TopTyped DEF LooksAtType, LooksForEnd, At
<1>2. PICK step \in {"open", "text", "end", "rest", "return"}:
        /\ Looks(t, step)
        /\ Top(t).at = "kind" =>
             step = IF state \in {"START", "STARTEND"} THEN "open" ELSE "text"
        /\ Top(t).at = "decide" =>
             /\ state \in Ended => step = "end"
             /\ state \notin Ended /\ Top(t).ln => step = "rest"
             /\ state \notin Ended /\ ~Top(t).ln => step = "return"
  <2>1. CASE LooksAtType(t)
    BY <2>1 DEF LooksAtType, At
  <2>2. CASE LooksForEnd(t)
    <3>1. CASE state \in Ended
      BY <2>2, <3>1 DEF LooksForEnd, At
    <3>2. CASE state \notin Ended /\ Top(t).ln
      BY <2>2, <3>2 DEF LooksForEnd, At
    <3>3. CASE state \notin Ended /\ ~Top(t).ln
      BY <2>2, <3>3 DEF LooksForEnd, At
    <3> QED BY <1>1, <3>1, <3>2, <3>3 DEF Call
  <2> QED BY <2>1, <2>2
<1>3. PICK c \in Call: c = [Top(t) EXCEPT !.at = step, !.fn = "default"]
  BY <1>1, <1>2 DEF Call, Whose
<1>4. /\ c.at = step /\ c.ln = Top(t).ln /\ c.hidden = Top(t).hidden /\ c.trace = Top(t).trace
      /\ c.ln \in BOOLEAN
  BY <1>1, <1>3 DEF Call
<1>5. Whole(Top(t)) /\ UNCHANGED <<hook, open, state>> => Whole(c)'
  <2> SUFFICES ASSUME Whole(Top(t)), UNCHANGED <<hook, open, state>> PROVE Whole(c)'
    OBVIOUS
  <2>1. CASE Top(t).at = "kind"
    BY <1>1, <1>2, <1>4, <2>1 DEF Whole, Stored
  <2>2. CASE Top(t).at = "decide"
    <3>1. c.ln <=> state \in Ended
      BY <1>4, <2>2 DEF Whole, Stored
    <3>2. step = "end" \/ step = "return"
      BY <1>2, <1>4, <2>2, <3>1
    <3> QED BY <1>1, <1>2, <1>4, <2>2, <3>1, <3>2 DEF Whole, Stored
  <2> QED BY <1>1, <2>1, <2>2
<1>6. c.at = "return" => ~c.ln
  BY <1>1, <1>2, <1>4
<1> QED BY <1>1, <1>2, <1>3, <1>4, <1>5, <1>6, GoesOn DEF Looks, LogInv, TypeOK, Stored

LEMMA OutputStep ==
  ASSUME LogInv, NEW t \in Threads, calls[t] # <<>>, Top(t).at # "store",
         NEW field \in {"static", "view"}, NEW step, NEW text,
         Outputs(t, field, step, text),
         \/ Top(t).at = "open" /\ step = "label" /\ text = "text"
         \/ Top(t).at = "label" /\ step = "text" /\ text = "text"
         \/ Top(t).at = "text" /\ step = "decide" /\ text = "text"
         \/ /\ Top(t).at \in {"end", "rest"} /\ step = "return"
            /\ text = IF Top(t).ln THEN "line end" ELSE "empty"
  PROVE  LogInv'
<1> DEFINE who == hook[IF Top(t).trace THEN "trace" ELSE field]
<1>1. Top(t) \in Call /\ ~Top(t).hidden
  BY TopTyped
<1>2. who \in Whose
  BY DEF LogInv, TypeOK, LogHook
<1>3. PICK w \in Whose: w = who
  BY <1>2
<1>4. /\ Becomes(t, [Top(t) EXCEPT !.at = step, !.fn = w])
      /\ open' = CASE text = "line end" -> open \ {w}
                   [] text = "empty" -> open
                   [] OTHER -> open \cup {w}
      /\ unflushed' \in BOOLEAN
      /\ UNCHANGED <<build, state, hook, hasInitialized, shouldFlush, copying, script,
                     alive, alone, torn>>
  BY <1>3 DEF Outputs
<1>5. /\ text = "text" => open' = open \cup {w}
      /\ text = "line end" => open' = open \ {w}
      /\ text = "empty" => open' = open
  BY <1>4
<1>6. step \in {"label", "text", "decide", "return"} /\ text \in {"text", "line end", "empty"}
  OBVIOUS
<1>7. open' \subseteq Whose
  BY <1>5, <1>6 DEF LogInv, TypeOK
<1>8. PICK c \in Call: c = [Top(t) EXCEPT !.at = step, !.fn = w]
  BY <1>1, <1>6 DEF Call
<1>9. /\ c.at = step /\ c.fn = w /\ c.ln = Top(t).ln /\ c.hidden = Top(t).hidden
      /\ c.trace = Top(t).trace /\ c.ln \in BOOLEAN
  BY <1>1, <1>8 DEF Call
<1>10. ASSUME hook["view"] = hook["static"], Whole(Top(t)) PROVE Whole(c)'
  <2>1. w = IF c.trace THEN hook["trace"] ELSE hook["view"]
    BY <1>3, <1>9, <1>10
  <2>2. hook' = hook /\ state' = state
    BY <1>4
  <2>3. c.ln <=> state \in Ended
    BY <1>9, <1>10 DEF Whole, Stored
  <2>4. CASE Top(t).at = "open"
    BY <1>1, <1>5, <1>9, <1>10, <2>1, <2>2, <2>3, <2>4 DEF Whole, Stored
  <2>5. CASE Top(t).at = "label"
    BY <1>1, <1>5, <1>9, <1>10, <2>1, <2>2, <2>3, <2>5 DEF Whole, Stored
  <2>6. CASE Top(t).at = "text"
    BY <1>1, <1>5, <1>9, <1>10, <2>1, <2>2, <2>3, <2>6 DEF Whole, Stored
  <2>7. CASE Top(t).at = "end"
    <3>1. Top(t).ln /\ open = {w}
      BY <1>1, <1>9, <1>10, <2>1, <2>7 DEF Whole
    <3>2. open' = {}
      BY <1>5, <2>7, <3>1
    <3> QED BY <1>1, <1>9, <2>2, <2>3, <2>7, <3>1, <3>2 DEF Whole, Stored
  <2>8. Top(t).at # "rest"
    BY <1>1, <1>10 DEF Whole
  <2> QED BY <2>4, <2>5, <2>6, <2>7, <2>8
<1>11. c.at = "return" /\ c.ln => c.fn \notin open'
  BY <1>5, <1>9
<1>12. c.at # "store"
  BY <1>6, <1>9
<1>13. state' = Stored(Top(t))
  BY <1>4 DEF Stored
<1> HIDE DEF who
<1> QED BY <1>1, <1>4, <1>7, <1>8, <1>9, <1>10, <1>11, <1>12, <1>13, GoesOn

LEMMA PrintStep ==
  ASSUME LogInv, NEW t \in Threads,
         PrintsBracket(t) \/ PrintsLabel(t) \/ PrintsMessage(t) \/ PrintsTermination(t)
  PROVE  LogInv'
<1>1. CASE PrintsBracket(t)
  BY <1>1, OutputStep DEF PrintsBracket, At
<1>2. CASE PrintsLabel(t)
  BY <1>2, OutputStep DEF PrintsLabel, At
<1>3. CASE PrintsMessage(t)
  <2>1. PICK field \in {"static", "view"}: Outputs(t, field, "decide", "text")
    BY <1>3 DEF PrintsMessage
  <2> QED BY <1>3, <2>1, OutputStep DEF PrintsMessage, At
<1>4. CASE PrintsTermination(t)
  BY <1>4, OutputStep DEF PrintsTermination, At
<1> QED BY <1>1, <1>2, <1>3, <1>4

\* Scripts that are begun, and the application's setup().
LEMMA ScriptBegins ==
  ASSUME LogInv, NEW t \in Threads, NEW items \in Seq(Item), Balanced(items),
         Free(t), script' = [script EXCEPT ![t] = items],
         hasInitialized' \in BOOLEAN,
         UNCHANGED <<build, state, hook, shouldFlush, calls, copying, alive, open,
                     unflushed, alone, torn>>
  PROVE  LogInv'
<1>1. script \in [Threads -> Seq(Item)] /\ \A u \in Threads: Balanced(script[u])
  BY DEF LogInv, TypeOK, CallsInv, Balanced
<1>2. ScriptsKept
  BY <1>1 DEF ScriptsKept
<1>3. copying[t] = <<>> /\ (script[t] # <<>> => Head(script[t]).do = "handler")
  BY DEF Free
<1>4. \A u \in Threads: u # t => script'[u] = script[u]
  BY <1>1
<1>5. \A u \in Threads: copying[u] # <<>> /\ script'[u] # <<>> => Head(script'[u]).do = "handler"
  BY <1>3, <1>4 DEF LogInv, CallsInv
<1>6. NothingStuck'
  BY <1>3, <1>4 DEF LogInv, NothingStuck
<1> QED BY <1>2, <1>5, <1>6, Elsewhere DEF LogInv, TypeOK

LEMMA RunStep ==
  ASSUME LogInv, NEW t \in Threads,
         NEW items \in Seq(Item), Balanced(items), Runs(t, items)
  PROVE  LogInv'
  BY ScriptBegins DEF Runs, LogInv, TypeOK

LEMMA SetupStep ==
  ASSUME LogInv, NEW t \in Threads, Setup(t)
  PROVE  LogInv'
<1>1. script \in [Threads -> Seq(Item)] /\ Balanced(script[t])
  BY DEF LogInv, TypeOK, CallsInv, Balanced
<1>2. script' = [script EXCEPT ![t] = script[t]]
  BY <1>1 DEF Setup
<1>3. hasInitialized' \in BOOLEAN
  BY DEF Setup, LogInv, TypeOK
<1> QED BY <1>1, <1>2, <1>3, ScriptBegins DEF Setup

LEMMA LibraryStep ==
  ASSUME LogInv, NEW t \in Threads,
         EntersScope(t) \/ LeavesScope(t) \/ LogMemory(t) \/ Handles(t) \/ Panics(t)
  PROVE  LogInv'
<1>1. TRACE \in LogLevel /\ INFO \in LogLevel /\ CRIT \in LogLevel
  BY DEF TRACE, INFO, CRIT, NO_LOG, LogLevel
<1>2. CASE EntersScope(t)
  <2>1. Plain(Scope \o Sizes(TRACE))
    BY <1>1, Library, PlainJoined DEF Scope
  <2> QED BY <1>2, <2>1, PlainBalanced, RunStep DEF EntersScope
<1>3. CASE LeavesScope(t)
  <2>1. Plain(Scope)
    BY <1>1, Library DEF Scope
  <2> QED BY <1>3, <2>1, PlainBalanced, RunStep DEF LeavesScope
<1>4. CASE LogMemory(t)
  BY <1>1, <1>4, Library, PlainBalanced, RunStep DEF LogMemory
<1>5. CASE Handles(t)
  <2> DEFINE s == <<Do("off"), Do("handler"), Do("on"), Do("flush")>>
  <2>1. /\ Do("off") \in Item /\ Do("off").do = "off"
        /\ Do("handler") \in Item /\ Do("handler").do = "handler"
        /\ Do("on") \in Item /\ Do("on").do = "on"
        /\ Do("flush") \in Item /\ Do("flush").do = "flush"
    BY <1>1, Items
  <2>2. s \in Seq(Item) /\ Balanced(s)
    BY <2>1 DEF Balanced
  <2> QED BY <1>5, <2>2, RunStep DEF Handles
<1>6. CASE Panics(t)
  BY <1>1, <1>6, Library, PlainBalanced, RunStep DEF Panics
<1> QED BY <1>2, <1>3, <1>4, <1>5, <1>6

\* Scripts that are gone on with.
LEMMA StatusStep ==
  ASSUME LogInv, NEW t \in Threads, StatusLogs(t)
  PROVE  LogInv'
<1>1. PICK level \in {DEBUG, ERROR}:
        script' = [script EXCEPT ![t] = <<Part(level), Line(level)>> \o script[t]]
  BY DEF StatusLogs
<1>2. level \in LogLevel
  BY DEF DEBUG, ERROR, TRACE, NO_LOG, LogLevel
<1>3. /\ Part(level) \in Item /\ Line(level) \in Item
      /\ Part(level).do # "on" /\ Line(level).do # "on"
  BY <1>2, Items
<1>4. script \in [Threads -> Seq(Item)] /\ \A u \in Threads: Balanced(script[u])
  BY DEF LogInv, TypeOK, CallsInv, Balanced
<1>5. ScriptsKept
  BY <1>1, <1>3, <1>4, PrependedBalanced DEF ScriptsKept
<1>6. script[t] # <<>> /\ Head(script[t]).do = "status"
  BY DEF StatusLogs, Upcoming
<1>7. \A u \in Threads: u # t => script'[u] = script[u]
  BY <1>1, <1>4
<1>8. \A u \in Threads: copying[u] # <<>> /\ script'[u] # <<>> => Head(script'[u]).do = "handler"
  BY <1>6, <1>7 DEF LogInv, CallsInv
<1>9. NothingStuck'
  BY <1>6, <1>7 DEF StatusLogs, LogInv, NothingStuck
<1> QED BY <1>5, <1>8, <1>9, Elsewhere DEF StatusLogs, LogInv, TypeOK

LEMMA PassStep ==
  ASSUME LogInv, NEW t \in Threads, script[t] # <<>>, Passes(t),
         Head(script[t]).do = "handler" => copying[t] = <<>>,
         shouldFlush' \in BOOLEAN, alive' \in BOOLEAN, unflushed' \in BOOLEAN,
         unflushed' => unflushed,
         \/ ~(unflushed' /\ shouldFlush')
         \/ shouldFlush /\ Head(script[t]).do # "flush"
         \/ Head(script[t]).do = "on"
  PROVE  LogInv'
<1>1. script \in [Threads -> Seq(Item)] /\ \A u \in Threads: Balanced(script[u])
  BY DEF LogInv, TypeOK, CallsInv, Balanced
<1>2. script' = [script EXCEPT ![t] = Tail(script[t])]
  BY DEF Passes
<1>3. ScriptsKept
  BY <1>1, <1>2, RestBalanced DEF ScriptsKept
<1>4. \A u \in Threads: u # t => script'[u] = script[u]
  BY <1>1, <1>2
<1>5. copying[t] = <<>>
  BY DEF LogInv, CallsInv
<1>6. \A u \in Threads: copying[u] # <<>> /\ script'[u] # <<>> => Head(script'[u]).do = "handler"
  BY <1>4, <1>5 DEF LogInv, CallsInv
<1>7. NothingStuck'
  <2> SUFFICES ASSUME unflushed', shouldFlush' PROVE NothingStuck'
    BY DEF NothingStuck
  <2>1. CASE Head(script[t]).do = "on"
    <3>1. script'[t] # <<>> /\ Head(script'[t]).do = "flush"
      BY <1>1, <1>2, <2>1, RestBalanced
    <3> QED BY <3>1 DEF NothingStuck
  <2>2. CASE shouldFlush /\ Head(script[t]).do # "flush"
    BY <1>4, <2>2 DEF LogInv, NothingStuck, Passes
  <2> QED BY <2>1, <2>2
<1> QED BY <1>3, <1>6, <1>7, Elsewhere DEF Passes, LogInv, TypeOK

LEMMA ScriptStep ==
  ASSUME LogInv, NEW t \in Threads,
         \/ StatusReturns(t) \/ HandlerReturns(t) \/ ShouldFlush(t) \/ FlushesLast(t)
         \/ Aborts(t)
  PROVE  LogInv'
<1> USE DEF Upcoming
<1>1. shouldFlush \in BOOLEAN /\ alive \in BOOLEAN /\ unflushed \in BOOLEAN
  BY DEF LogInv, TypeOK
<1>2. CASE StatusReturns(t)
  BY <1>1, <1>2, PassStep DEF StatusReturns
<1>3. CASE HandlerReturns(t)
  BY <1>1, <1>3, PassStep DEF HandlerReturns
<1>4. CASE ShouldFlush(t)
  BY <1>1, <1>4, PassStep DEF ShouldFlush
<1>5. CASE FlushesLast(t)
  BY <1>1, <1>5, PassStep DEF FlushesLast
<1>6. CASE Aborts(t)
  BY <1>1, <1>6, PassStep DEF Aborts
<1> QED BY <1>2, <1>3, <1>4, <1>5, <1>6

-----------------------------------------------------------------------------
LEMMA LogInvInit == Init => LogInv
<1> SUFFICES ASSUME Init PROVE LogInv
  OBVIOUS
<1>1. TypeOK
  <2>1. build \in LogLevel
    BY BuildAssumption DEF Init
  <2>2. hook \in LogHook
    BY DEF Init, LogHook, DefaultHook, Whose
  <2>3. /\ calls \in [Threads -> Seq(Call)] /\ script \in [Threads -> Seq(Item)]
        /\ copying \in [Threads -> Seq({Fields[i]: i \in 1 .. 5} \X Whose)]
    BY DEF Init
  <2> QED BY <2>1, <2>2, <2>3 DEF Init, TypeOK, LogType
<1>2. CallsInv
  BY DEF Init, CallsInv
<1>3. AloneInv /\ WholeInv
  BY DEF Init, AloneInv, WholeInv, Silent
<1>4. NothingStuck
  BY DEF Init, NothingStuck
<1> QED BY <1>1, <1>2, <1>3, <1>4 DEF LogInv

LEMMA LogInvStep == LogInv /\ [Next]_logVars => LogInv'
<1> SUFFICES ASSUME LogInv, [Next]_logVars PROVE LogInv'
  OBVIOUS
<1>1. CASE UNCHANGED logVars
  BY <1>1 DEF logVars, LogInv, TypeOK, CallsInv, AloneInv, WholeInv, NothingStuck,
              Only, Silent, Stored, Whole, Top
<1>2. CASE Next
  <2>1. PICK t \in Threads:
          \/ Trace(t) \/ Debug(t) \/ Info(t) \/ Warn(t) \/ Error(t) \/ Crit(t)
          \/ Stores(t) \/ Flushes(t) \/ LooksAtType(t) \/ PrintsBracket(t) \/ PrintsLabel(t)
          \/ PrintsMessage(t) \/ LooksForEnd(t) \/ PrintsTermination(t) \/ Returns(t)
          \/ (\E h \in Hooks: SetHook(t, h)) \/ TakeHook(t) \/ CopiesPointer(t) \/ Setup(t)
          \/ EntersScope(t) \/ LeavesScope(t) \/ LogMemory(t) \/ Handles(t) \/ Panics(t)
          \/ StatusLogs(t) \/ StatusReturns(t) \/ HandlerReturns(t) \/ ShouldFlush(t)
          \/ FlushesLast(t) \/ Aborts(t)
    BY <1>2 DEF Next
  <2>2. \A level \in {TRACE, DEBUG, INFO, WARN, ERROR, CRIT}: level \in TRACE..CRIT
    BY DEF TRACE, DEBUG, INFO, WARN, ERROR, CRIT
  <2>3. CASE Trace(t) \/ Debug(t) \/ Info(t) \/ Warn(t) \/ Error(t) \/ Crit(t)
    BY <2>2, <2>3, CallStep DEF Trace, Debug, Info, Warn, Error, Crit
  <2>4. CASE \/ Stores(t) \/ Flushes(t) \/ LooksAtType(t) \/ PrintsBracket(t)
             \/ PrintsLabel(t) \/ PrintsMessage(t) \/ LooksForEnd(t)
             \/ PrintsTermination(t) \/ Returns(t)
    BY <2>4, StoreStep, FlushStep, LookStep, PrintStep, ReturnStep
  <2>5. CASE (\E h \in Hooks: SetHook(t, h)) \/ TakeHook(t)
    <3>1. \A h \in Hooks: h \in LogHook
      BY HooksAssumption
    <3>2. DefaultHook \in LogHook
      BY DEF DefaultHook, LogHook, Whose
    <3> QED BY <2>5, <3>1, <3>2, HookStep DEF TakeHook
  <2>6. CASE CopiesPointer(t)
    BY <2>6, CopyStep
  <2>7. CASE Setup(t)
    BY <2>7, SetupStep
  <2>8. CASE EntersScope(t) \/ LeavesScope(t) \/ LogMemory(t) \/ Handles(t) \/ Panics(t)
    BY <2>8, LibraryStep
  <2>9. CASE StatusLogs(t)
    BY <2>9, StatusStep
  <2>10. CASE \/ StatusReturns(t) \/ HandlerReturns(t) \/ ShouldFlush(t)
              \/ FlushesLast(t) \/ Aborts(t)
    BY <2>10, ScriptStep
  <2> QED BY <2>1, <2>3, <2>4, <2>5, <2>6, <2>7, <2>8, <2>9, <2>10
<1> QED BY <1>1, <1>2

\* The invariant of the logger: what each call in progress stands on, for
\* every interleaving of threads, hooks and the library's own lines.
THEOREM LogInvariant == Spec => []LogInv
<1>1. Init => LogInv
  BY LogInvInit
<1>2. LogInv /\ [Next]_logVars => LogInv'
  BY LogInvStep
<1> QED BY <1>1, <1>2, PTL DEF Spec

\* Lines are whole while calls do not overlap and unfinished lines are gone on
\* with where they are.
THEOREM LinesWhole == Spec => []LinesAreWhole
<1>1. LogInv => LinesAreWhole
  <2> SUFFICES ASSUME LogInv, ~torn
               PROVE  /\ \A t \in Threads: calls[t] # <<>> =>
                           /\ Top(t).at = "open" => open = {}
                           /\ Top(t).at \in {"label", "text", "decide", "end"} => open # {}
                           /\ Top(t).at = "end" => Top(t).ln
                           /\ Top(t).at # "rest"
                           /\ Top(t).at = "return" => (Top(t).ln <=> open = {})
                      /\ Quiet /\ state \in Ended => open = {}
                      /\ \A a, b \in open: a = b
    BY DEF LinesAreWhole
  <2>1. CASE Silent /\ (state \in Ended => open = {}) /\ (\A a, b \in open: a = b)
    BY <2>1 DEF Silent
  <2>2. CASE \E t \in Threads: Only(t) /\ Whole(Top(t))
    <3>1. PICK t \in Threads: Only(t) /\ Whole(Top(t))
      BY <2>2
    <3>2. calls[t] # <<>> /\ \A u \in Threads: u # t => calls[u] = <<>>
      <4>1. \A u \in Threads: u # t => calls[u] = <<>>
        BY <3>1 DEF Only
      <4>2. Len(calls[t]) = 1
        BY <3>1 DEF Only
      <4> QED BY <4>1, <4>2, OneCall
    <3>3. Top(t) \in Call /\ (Top(t).hidden => Top(t).at = "store") /\ ~Quiet
      BY <3>2, TopTyped DEF Quiet, Idle
    <3>4. \A a, b \in open: a = b
      BY <3>1, <3>3 DEF Whole, Call
    <3>5. /\ Top(t).at = "open" => open = {}
          /\ Top(t).at \in {"label", "text", "decide", "end"} => open # {}
          /\ Top(t).at = "end" => Top(t).ln
          /\ Top(t).at # "rest"
          /\ Top(t).at = "return" => (Top(t).ln <=> open = {})
      BY <3>1, <3>3 DEF Whole, Call
    <3> QED BY <3>2, <3>3, <3>4, <3>5
  <2> QED BY <2>1, <2>2 DEF LogInv, WholeInv
<1> QED BY <1>1, LogInvariant, PTL

\* Printed text is not left unflushed, unless flushing is off.
THEOREM NothingIsStuck == Spec => []NothingStuck
<1>1. LogInv => NothingStuck
  BY DEF LogInv
<1> QED BY <1>1, LogInvariant, PTL

LEMMA Longer == ASSUME NEW s \in Seq(Call), NEW c PROVE Append(s, c) # <<>>
<1>1. s \in Seq(Call \cup {c}) /\ c \in Call \cup {c}
  OBVIOUS
<1> QED BY <1>1

LEMMA ChangesCalls ==
  ASSUME Next, calls' # calls
  PROVE  \E t \in Threads:
           \/ \E level \in TRACE..CRIT: Calls(t, level)
           \/ \E c: calls[t] # <<>> /\ Becomes(t, c)
           \/ Pops(t) /\ ((Stores(t) /\ Top(t).hidden) \/ Returns(t))
<1>1. \A level \in {TRACE, DEBUG, INFO, WARN, ERROR, CRIT}: level \in TRACE..CRIT
  BY DEF TRACE, DEBUG, INFO, WARN, ERROR, CRIT
<1>2. PICK t \in Threads:
        \/ Trace(t) \/ Debug(t) \/ Info(t) \/ Warn(t) \/ Error(t) \/ Crit(t)
        \/ Stores(t) \/ Flushes(t) \/ LooksAtType(t) \/ PrintsBracket(t) \/ PrintsLabel(t)
        \/ PrintsMessage(t) \/ LooksForEnd(t) \/ PrintsTermination(t) \/ Returns(t)
  BY DEF Next, SetHook, TakeHook, CopiesPointer, Setup, Runs, EntersScope, LeavesScope,
         LogMemory, Handles, Panics, StatusLogs, Passes, StatusReturns, HandlerReturns,
         ShouldFlush, FlushesLast, Aborts
<1>3. CASE Trace(t) \/ Debug(t) \/ Info(t) \/ Warn(t) \/ Error(t) \/ Crit(t)
  BY <1>1, <1>3 DEF Trace, Debug, Info, Warn, Error, Crit
<1>4. CASE Stores(t)
  BY <1>4 DEF Stores, At
<1>5. CASE Flushes(t)
  BY <1>5 DEF Flushes, At
<1>6. CASE LooksAtType(t) \/ LooksForEnd(t)
  BY <1>6 DEF LooksAtType, LooksForEnd, Looks, At
<1>7. CASE PrintsBracket(t) \/ PrintsLabel(t) \/ PrintsMessage(t) \/ PrintsTermination(t)
  BY <1>7 DEF PrintsBracket, PrintsLabel, PrintsMessage, PrintsTermination, Outputs, At
<1>8. CASE Returns(t)
  BY <1>8 DEF Returns, At
<1> QED BY <1>2, <1>3, <1>4, <1>5, <1>6, <1>7, <1>8

\* A call alone that ends a line mends what others left.
THEOREM Mended == Spec => Heals
<1> DEFINE Step == \A t \in Threads:
       alone /\ Len(calls[t]) = 1 /\ calls'[t] = <<>> /\ Top(t).ln =>
         state' \in Ended /\ (Top(t).hidden \/ Top(t).fn \notin open')
<1>1. LogInv /\ [Next]_logVars => [Step]_logVars
  <2> SUFFICES ASSUME LogInv, Next, NEW t \in Threads,
                      alone, Len(calls[t]) = 1, calls'[t] = <<>>, Top(t).ln
               PROVE  state' \in Ended /\ (Top(t).hidden \/ Top(t).fn \notin open')
    OBVIOUS
  <2>1. calls \in [Threads -> Seq(Call)] /\ calls[t] # <<>>
    <3>1. calls \in [Threads -> Seq(Call)]
      BY DEF LogInv, TypeOK
    <3> QED BY <3>1, OneCall
  <2>2. /\ Top(t).ln <=> Stored(Top(t)) \in Ended
        /\ Top(t).at = "return" /\ Top(t).ln => Top(t).fn \notin open
    BY <2>1 DEF LogInv, AloneInv, Silent, Only
  <2>3. (Stores(t) /\ Top(t).hidden) \/ Returns(t)
    <3>1. calls' # calls
      BY <2>1
    <3>2. PICK u \in Threads:
            \/ \E level \in TRACE..CRIT: Calls(u, level)
            \/ \E c: calls[u] # <<>> /\ Becomes(u, c)
            \/ Pops(u) /\ ((Stores(u) /\ Top(u).hidden) \/ Returns(u))
      BY <3>1, ChangesCalls
    <3>3. u = t
      <4> SUFFICES ASSUME u # t PROVE calls'[t] = calls[t]
        BY <2>1
      <4> QED BY <2>1, <3>2 DEF Calls, Starts, Becomes, Pops
    <3>4. ASSUME NEW level \in TRACE..CRIT, Calls(u, level) PROVE FALSE
      <4>1. \E c: calls'[t] = Append(calls[t], c)
        BY <2>1, <3>3, <3>4 DEF Calls, Starts
      <4> QED BY <2>1, <4>1, Longer
    <3>5. ASSUME NEW c, Becomes(u, c) PROVE FALSE
      <4>1. calls'[t] = Append(Front(calls[t]), c) /\ Front(calls[t]) \in Seq(Call)
        BY <2>1, <3>3, <3>5, CallRemoved DEF Becomes
      <4> QED BY <4>1, Longer
    <3> QED BY <3>2, <3>3, <3>4, <3>5
  <2>4. CASE Stores(t) /\ Top(t).hidden
    BY <2>2, <2>4 DEF Stores, At, Stored
  <2>5. CASE Returns(t)
    BY <2>2, <2>5 DEF Returns, At, Stored
  <2> QED BY <2>3, <2>4, <2>5
<1> QED BY <1>1, LogInvariant, PTL DEF Spec, Heals
=============================================================================
