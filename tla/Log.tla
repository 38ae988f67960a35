--------------------------------- MODULE Log ---------------------------------
(***************************************************************************)
(* Loggers and the listener of the variable "logs": what a reload does to  *)
(* them, and where a message goes that is logged meanwhile.  A definition  *)
(* is a level and appenders; formatters are left out.                      *)
(***************************************************************************)
EXTENDS Integers, Sequences, SequencesExt

CONSTANTS
  Names,      \* of loggers, in their order, "root" among them
  Levels,     \* levels in a file; UNKNOW when it has none
  Appenders,  \* the sequences of appenders in a file
  MaxLoads    \* bound: reloads
LogAssumption ==
  /\ Names \in Seq(ToSet(Names)) /\ IsInjective(Names) /\ "root" \in ToSet(Names)
  /\ Levels \subseteq Nat /\ Appenders \subseteq Seq({"file", "stdout"})
  /\ MaxLoads \in Nat

UNKNOW == 0
DEBUG  == 1
Define == [level: Levels \cup {UNKNOW}, appenders: Appenders]
Files  == UNION {[S -> Define] : S \in SUBSET ToSet(Names)}

VARIABLES
  g_log_defines, \* the variable's value
  m_loggers,     \* of each name: [level, appenders]; new loggers log everything
  file,          \* what was loaded last
  todo,          \* the names that the listener has still to apply
  at,            \* how much of the first of them it has applied
  state,         \* "idle", "apply" (new_value), "remove" (old_value) or "crashed"
  loads,         \* reloads
  before,        \* history: m_loggers before the last reload
  ignored        \* history: it changed nothing but appenders
history == <<before, ignored>>
vars == <<g_log_defines, m_loggers, file, todo, at, state, loads, history>>

Init ==
  /\ g_log_defines = <<>> /\ file = <<>>
  /\ m_loggers = [n \in ToSet(Names) |->
       [level |-> DEBUG, appenders |-> IF n = "root" THEN <<"stdout">> ELSE <<>>]]
  /\ todo = {} /\ at = 0 /\ state = "idle" /\ loads = 0
  /\ before = m_loggers /\ ignored = FALSE

(* LogDefine::operator== compares the appenders with themselves.           *)
\* Mutant of Same: entries are compared as they are ordered, by their names.
SameName(f, g, n) == n \in DOMAIN f \cap DOMAIN g
Same(f, g, n) == f[n].level = g[n].level
SameFile(f, g) == DOMAIN f = DOMAIN g /\ \A n \in DOMAIN f : Same(f, g, n)
(* LogDefine::operator<: the listener goes through the sets by name.       *)
First(S) == Names[Min({i \in DOMAIN Names : Names[i] \in S})]

(* setValue: nothing happens unless the value differs.                     *)
Load(f) ==
  /\ state = "idle" /\ loads < MaxLoads /\ loads' = loads + 1 /\ file' = f /\ at' = 0
  /\ before' = m_loggers /\ ignored' = (f # g_log_defines /\ SameFile(f, g_log_defines))
  /\ IF SameFile(f, g_log_defines) THEN UNCHANGED <<state, todo>>
     ELSE state' = "apply" /\ todo' = DOMAIN f
  /\ UNCHANGED <<g_log_defines, m_loggers>>

(* A new logger or a changed one is looked up; for an unchanged one the    *)
(* pointer stays null.  Its level is set, its appenders are cleared and    *)
(* added again, one call after the other.                                  *)
Apply ==
  LET n == First(todo)
      wanted == file[n]
      next == wanted.appenders[at - 1] IN
  /\ state = "apply" /\ todo # {}
  /\ IF n \in DOMAIN g_log_defines /\ Same(file, g_log_defines, n)
     THEN state' = "crashed" /\ UNCHANGED <<m_loggers, at, todo>>
     ELSE /\ UNCHANGED state
          /\ m_loggers' = CASE at = 0 -> [m_loggers EXCEPT ![n].level = wanted.level]
                            [] at = 1 -> [m_loggers EXCEPT ![n].appenders = <<>>]
                            [] OTHER -> [m_loggers EXCEPT ![n].appenders = Append(@, next)]
          /\ IF at <= Len(wanted.appenders) THEN at' = at + 1 /\ UNCHANGED todo
             ELSE at' = 0 /\ todo' = todo \ {n}
  /\ UNCHANGED <<g_log_defines, file, loads, history>>
(* Then the ones that are gone: they log everything, to no appender.       *)
Gone == DOMAIN g_log_defines \ DOMAIN file
Applied ==
  /\ state = "apply" /\ todo = {} /\ state' = "remove" /\ todo' = Gone
  /\ UNCHANGED <<g_log_defines, m_loggers, file, at, loads, history>>
RemoveLevel ==
  /\ state = "remove" /\ todo # {} /\ at = 0 /\ at' = 1
  /\ m_loggers' = [m_loggers EXCEPT ![First(todo)].level = UNKNOW]
  /\ UNCHANGED <<g_log_defines, file, todo, state, loads, history>>
RemoveAppenders ==
  /\ state = "remove" /\ at = 1 /\ at' = 0 /\ todo' = todo \ {First(todo)}
  /\ m_loggers' = [m_loggers EXCEPT ![First(todo)].appenders = <<>>]
  /\ UNCHANGED <<g_log_defines, file, state, loads, history>>
Assign ==
  /\ state = "remove" /\ todo = {} /\ state' = "idle" /\ g_log_defines' = file
  /\ UNCHANGED <<m_loggers, file, todo, at, loads, history>>

Reload == Apply \/ Applied \/ RemoveLevel \/ RemoveAppenders \/ Assign
Next == Reload \/ \E f \in Files : Load(f)
Fairness == WF_vars(Reload)
Spec == Init /\ [][Next]_vars /\ Fairness

(* Logger::log: where a message of some level goes.                        *)
ToRoot(level) ==
  IF level >= m_loggers["root"].level THEN m_loggers["root"].appenders ELSE <<>>
Sinks(n, level) ==
  IF level < m_loggers[n].level THEN <<>>
  ELSE IF m_loggers[n].appenders # <<>> THEN m_loggers[n].appenders ELSE ToRoot(level)
-----------------------------------------------------------------------------
(* The variables have their types.                                         *)
TypeOK ==
  /\ g_log_defines \in Files /\ file \in Files
  /\ m_loggers \in [ToSet(Names) -> [level: Nat, appenders: Seq({"file", "stdout"})]]
  /\ todo \in SUBSET ToSet(Names) /\ at \in Nat /\ ignored \in BOOLEAN
  /\ state \in {"idle", "apply", "remove", "crashed"}

(* LoggersExact: between two reloads the loggers have the levels of the    *)
(* last file, and its appenders unless it changed nothing but appenders;   *)
(* one that was removed logs everything to root's appenders.  During a     *)
(* reload a message reaches the old appenders, a beginning of the new ones *)
(* or, when there are none yet, root's, and never both old and new ones.   *)
(* A reload that keeps an entry and changes something stops at that entry: *)
(* the loggers before it are as in the new file, those behind as before.   *)
LoggersExact ==
  /\ state = "idle" => \A n \in DOMAIN file :
       /\ m_loggers[n].level = file[n].level
       /\ ~ ignored => m_loggers[n].appenders = file[n].appenders
  /\ state = "idle" => \A n \in ToSet(Names) \ DOMAIN file :
       m_loggers[n].level <= DEBUG /\ (n # "root" => Sinks(n, DEBUG) = ToRoot(DEBUG))
  /\ state # "idle" => \A n \in DOMAIN file :
       \/ m_loggers[n].appenders = before[n].appenders
       \/ IsPrefix(m_loggers[n].appenders, file[n].appenders)
  /\ state = "crashed" => \A i, j \in DOMAIN Names :
       First(todo) = Names[j] =>
         /\ i < j /\ Names[i] \in DOMAIN file => m_loggers[Names[i]] = file[Names[i]]
         /\ i >= j => m_loggers[Names[i]] = before[Names[i]]

(* Returns: every reload ends, or stops at an entry that it keeps.         *)
Returns == state = "apply" ~> state \in {"idle", "crashed"}
=============================================================================
