------------------------------- MODULE Config -------------------------------
(***************************************************************************)
(* ConfigVar: one variable that several threads set while listeners are    *)
(* registered and removed.  setValue compares and notifies under the read  *)
(* lock, lets go of it, and assigns under the write lock.                  *)
(***************************************************************************)
EXTENDS Integers, Sequences, FiniteSets, SequencesExt

CONSTANTS
  Callers,    \* the threads
  Values, Bad,
  Good,       \* the default value
  Listeners,  \* every listener keeps a copy of the values it is given
  Clamps,     \* the ones that answer a bad value with setValue(Good)
  Checks,     \* the ones that throw on a bad value
  MaxCalls    \* bound: calls in all
ConfigAssumption ==
  Good \in Values \ Bad /\ Clamps \cup Checks \subseteq Listeners /\ MaxCalls \in Nat

VARIABLES
  m_val,
  m_cbs,   \* the listeners in the order of their keys
  stack,   \* of each thread: its calls of setValue, [v, at, todo], the inner first
  adding,  \* of each thread: the listeners between its getValue and addListener
  copy,    \* of each listener: the value it has
  calls,   \* calls begun
  mishaps  \* history: "overlap" of a set with another set or with a
           \* registration, a check that "threw"
vars == <<m_val, m_cbs, stack, adding, copy, calls, mishaps>>

Init ==
  /\ m_val = Good /\ m_cbs = <<>> /\ stack = [t \in Callers |-> <<>>]
  /\ adding = [t \in Callers |-> {}] /\ copy = [l \in Listeners |-> Good]
  /\ calls = 0 /\ mishaps = {}

(* Who holds the read lock; and who has compared and has not yet assigned. *)
\* Mutant of Reading: setValue assigns before it lets go of the read lock.
ReadingOn(t) == \E i \in DOMAIN stack[t] : stack[t][i].at # "compare"
Reading(t) == \E i \in DOMAIN stack[t] : stack[t][i].at = "notify"
Writable   == \A t \in Callers : ~ Reading(t)
Setting(t) == \E i \in DOMAIN stack[t] : stack[t][i].at # "compare"
Calling(v) == [v |-> v, at |-> "compare", todo |-> <<>>]
Top(t)     == Head(stack[t])
At(t, place) == stack[t] # <<>> /\ Top(t).at = place
Goto(t, frame) == stack' = [stack EXCEPT ![t] = <<frame>> \o Tail(@)]

Begins(t) ==
  /\ stack[t] = <<>> /\ adding[t] = {} /\ calls < MaxCalls /\ calls' = calls + 1
SetValue(t, v) ==
  /\ Begins(t) /\ stack' = [stack EXCEPT ![t] = <<Calling(v)>>]
  /\ UNCHANGED <<m_val, m_cbs, adding, copy, mishaps>>
Compare(t) ==
  /\ At(t, "compare")
  /\ IF Top(t).v = m_val
     THEN stack' = [stack EXCEPT ![t] = Tail(@)] /\ UNCHANGED mishaps
     ELSE /\ Goto(t, [Top(t) EXCEPT !.at = "notify", !.todo = m_cbs])
          /\ mishaps' = IF \E u \in Callers \ {t} : Setting(u) \/ adding[u] # {}
                        THEN mishaps \cup {"overlap"} ELSE mishaps
  /\ UNCHANGED <<m_val, m_cbs, adding, copy, calls>>

(* One listener.  A call of setValue in it is made under the read lock; an *)
(* exception leaves every call, and fromString drops it.                   *)
Notify(t) ==
  LET l == Head(Top(t).todo)
      v == Top(t).v
      rest == [Top(t) EXCEPT !.todo = Tail(@)] IN
  /\ At(t, "notify") /\ Top(t).todo # <<>>
  /\ IF l \in Checks /\ v \in Bad
     THEN /\ mishaps' = mishaps \cup {"threw"} /\ UNCHANGED copy
          /\ stack' = [stack EXCEPT ![t] = <<>>]
     ELSE /\ copy' = [copy EXCEPT ![l] = v] /\ UNCHANGED mishaps
          /\ IF l \in Clamps /\ v \in Bad
             THEN stack' = [stack EXCEPT ![t] = <<Calling(Good), rest>> \o Tail(@)]
             ELSE Goto(t, rest)
  /\ UNCHANGED <<m_val, m_cbs, adding, calls>>
Unlock(t) ==
  /\ At(t, "notify") /\ Top(t).todo = <<>> /\ Goto(t, [Top(t) EXCEPT !.at = "assign"])
  /\ UNCHANGED <<m_val, m_cbs, adding, copy, calls, mishaps>>
Assign(t) ==
  /\ At(t, "assign") /\ Writable
  /\ m_val' = Top(t).v /\ stack' = [stack EXCEPT ![t] = Tail(@)]
  /\ UNCHANGED <<m_cbs, adding, copy, calls, mishaps>>

(* What a user does to follow a variable: getValue, then addListener.      *)
GetValue(t, l) ==
  /\ Begins(t) /\ l \notin ToSet(m_cbs) /\ l \notin UNION Range(adding)
  /\ copy' = [copy EXCEPT ![l] = m_val] /\ adding' = [adding EXCEPT ![t] = {l}]
  /\ mishaps' = IF \E u \in Callers : Setting(u) THEN mishaps \cup {"overlap"} ELSE mishaps
  /\ UNCHANGED <<m_val, m_cbs, stack>>
AddListener(t) ==
  /\ Writable /\ \E l \in adding[t] : m_cbs' = Append(m_cbs, l)
  /\ adding' = [adding EXCEPT ![t] = {}]
  /\ UNCHANGED <<m_val, stack, copy, calls, mishaps>>
DelListener(t, l) ==
  /\ Begins(t) /\ Writable
  /\ \E i \in DOMAIN m_cbs : m_cbs[i] = l /\ m_cbs' = RemoveAt(m_cbs, i)
  /\ UNCHANGED <<m_val, stack, adding, copy, mishaps>>

Run(t) == Compare(t) \/ Notify(t) \/ Unlock(t) \/ Assign(t) \/ AddListener(t)
Next == \E t \in Callers :
  \/ Run(t) \/ \E v \in Values : SetValue(t, v)
  \/ \E l \in Listeners : GetValue(t, l) \/ DelListener(t, l)

(* Threads run on.                                                         *)
Fairness == \A t \in Callers : WF_vars(Run(t))
Spec == Init /\ [][Next]_vars /\ Fairness
-----------------------------------------------------------------------------
(* The variables have their types.                                         *)
TypeOK ==
  /\ m_val \in Values /\ m_cbs \in Seq(Listeners) /\ IsInjective(m_cbs)
  /\ \A t \in Callers : \A i \in DOMAIN stack[t] :
       stack[t][i].v \in Values /\ stack[t][i].todo \in Seq(Listeners)
  /\ adding \in [Callers -> SUBSET Listeners] /\ copy \in [Listeners -> Values]
  /\ calls \in 0 .. MaxCalls /\ mishaps \subseteq {"overlap", "threw"}

(* FollowersExact: when nothing is under way a registered listener has the *)
(* variable's value, unless a set overlapped with another set or with a    *)
(* registration, or a check threw behind it; nothing repairs that but a    *)
(* later set to another value.                                             *)
Quiet == \A t \in Callers : stack[t] = <<>> /\ adding[t] = {}
Stuck(t) == Len(stack[t]) > 1 /\ At(t, "assign")
FollowersExact ==
  /\ Quiet /\ mishaps = {} => \A l \in ToSet(m_cbs) : copy[l] = m_val
  /\ Quiet /\ "overlap" \notin mishaps =>
       \A l \in ToSet(m_cbs) : copy[l] # m_val => copy[l] \in Bad /\ l \notin Checks

(* Returns: every call returns, unless a listener sets the variable that   *)
(* it listens to; then no call that needs the write lock does.             *)
Returns == <>[](Quiet \/ \E t \in Callers : Stuck(t))
=============================================================================
