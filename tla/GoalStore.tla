------------------------------ MODULE GoalStore ------------------------------
(***************************************************************************)
(* The goals (ego/src/goal-store.ts): a list in memory, read from its file *)
(* by the first call that needs it, and flushed after every change.  The   *)
(* flushes stand in line (writeChain); the loads do not.                   *)
(*                                                                         *)
(* A list is the set of changes it holds: that a goal was created, and     *)
(* every later change of it.                                               *)
(***************************************************************************)
EXTENDS Naturals, Sequences, FiniteSets

CONSTANTS
  Create, Update, List,   \* the calls (archive is an update, get a list)
  Null,                   \* nothing loaded
  Half                    \* a file that was truncated and not written again

\* Assumed of the constants; the modules that instantiate this one check it.
GoalAssumption ==
  /\ List \cap (Create \cup Update) = {}
  /\ \A S \in SUBSET (Create \cup Update) : S # Null /\ S # Half

VARIABLES
  goals,       \* the list in memory, or Null
  goalFile,    \* the list in the file, or Half; {} as well when there is none
  goalCall,    \* goalCall[c]: [state, read, goal], what it read, which goal it changes
  chain,       \* writeChain: calls whose flush has its turn yet to come, or has it now
  told,        \* history: calls that were answered without an error
  clobbered    \* history: a load has replaced a list that was there

vars == <<goals, goalFile, goalCall, chain, told, clobbered>>

GoalCall == Create \cup Update \cup List
Change == Create \cup Update

TypeOK ==
  /\ goals = Null \/ goals \subseteq Change
  /\ goalFile = Half \/ goalFile \subseteq Change
  /\ \A i \in 1..Len(chain) : goalCall[chain[i]].state \in {"queued", "mkdir", "writing"}
  /\ told \subseteq GoalCall /\ clobbered \in BOOLEAN

Init ==
  /\ goals = Null /\ goalFile = {} /\ chain = <<>> /\ told = {} /\ clobbered = FALSE
  /\ goalCall = [c \in GoalCall |-> [state |-> "new", read |-> {}, goal |-> c]]

To(c, state) == goalCall' = [goalCall EXCEPT ![c].state = state]
End(c, state) == goalCall' = [goalCall EXCEPT ![c] = [state |-> state, read |-> {}, goal |-> c]]

-----------------------------------------------------------------------------
(* ensureLoaded *)

Begin(c, g) ==
  /\ goalCall[c].state = "new"
  /\ g = c \/ c \in Update
  /\ goalCall' = [goalCall EXCEPT ![c].state = IF goals = Null THEN "reading" ELSE "loaded",
                                  ![c].goal = g]
  /\ UNCHANGED <<goals, goalFile, chain, told, clobbered>>

Read(c) ==
  /\ goalCall[c].state = "reading"
  /\ goalCall' = [goalCall EXCEPT ![c].state = "parsing", ![c].read = goalFile]
  /\ UNCHANGED <<goals, goalFile, chain, told, clobbered>>

\* The list is set, whatever another call has loaded and changed in the meantime.
\* Half a file does not parse, and the call throws.
Load(c) ==
  /\ goalCall[c].state = "parsing"
  /\ IF goalCall[c].read = Half
     THEN End(c, "failed") /\ UNCHANGED <<goals, clobbered>>
     ELSE /\ goals' = goalCall[c].read
          /\ clobbered' = (clobbered \/ goals # Null)
          /\ goalCall' = [goalCall EXCEPT ![c].state = "loaded", ![c].read = {}]
  /\ UNCHANGED <<goalFile, chain, told>>

-----------------------------------------------------------------------------
(* What the calls do with the list *)

ListGoals(c) ==
  /\ c \in List /\ goalCall[c].state = "loaded"
  /\ End(c, "done") /\ told' = told \cup {c}
  /\ UNCHANGED <<goals, goalFile, chain, clobbered>>

\* create and update change the list in memory and stand in line for a flush.
Enqueue(c) ==
  /\ c \in Change /\ goalCall[c].state = "loaded"
  /\ c \in Update => goalCall[c].goal \in goals
  /\ goals' = goals \cup {c}
  /\ chain' = Append(chain, c)
  /\ To(c, "queued")
  /\ UNCHANGED <<goalFile, told, clobbered>>

\* update of a goal that is not there throws.
NotFound(c) ==
  /\ c \in Update /\ goalCall[c].state = "loaded" /\ goalCall[c].goal \notin goals
  /\ End(c, "failed")
  /\ UNCHANGED <<goals, goalFile, chain, told, clobbered>>

-----------------------------------------------------------------------------
(* flush, one at a time *)

\* Variant: the flushes do not wait for each other.
MakeDirAtOnce(c) ==
  /\ goalCall[c].state = "queued"
  /\ To(c, "mkdir")
  /\ UNCHANGED <<goals, goalFile, chain, told, clobbered>>

MakeDir(c) ==
  /\ goalCall[c].state = "queued" /\ Head(chain) = c
  /\ To(c, "mkdir")
  /\ UNCHANGED <<goals, goalFile, chain, told, clobbered>>

\* The list as it is now is serialised, and the file truncated.
Truncate(c) ==
  /\ goalCall[c].state = "mkdir"
  /\ goalCall' = [goalCall EXCEPT ![c].state = "writing", ![c].read = goals]
  /\ goalFile' = Half
  /\ UNCHANGED <<goals, chain, told, clobbered>>

\* The flush that had its turn is over.
Leave == chain' = Tail(chain)

Write(c) ==
  /\ goalCall[c].state = "writing"
  /\ goalFile' = goalCall[c].read
  /\ Leave /\ told' = told \cup {c} /\ End(c, "done")
  /\ UNCHANGED <<goals, clobbered>>

\* The caller gets the error, the list keeps the change, and the next flush has its turn.
FlushFails(c) ==
  /\ goalCall[c].state \in {"mkdir", "writing"}
  /\ Leave /\ End(c, "failed")
  /\ UNCHANGED <<goals, goalFile, told, clobbered>>

\* The process dies and another one starts.
Restart ==
  /\ goals # Null
  /\ goals' = Null /\ chain' = <<>>
  /\ goalCall' = [c \in GoalCall |-> IF goalCall[c].state \in {"new", "done"} THEN goalCall[c]
                                     ELSE [state |-> "failed", read |-> {}, goal |-> c]]
  /\ UNCHANGED <<goalFile, told, clobbered>>

Next ==
  \/ \E c \in GoalCall :
       \/ \E g \in Create \cup {c} : Begin(c, g)
       \/ Read(c) \/ Load(c) \/ ListGoals(c) \/ Enqueue(c) \/ NotFound(c)
       \/ MakeDir(c) \/ Truncate(c) \/ Write(c) \/ FlushFails(c)
  \/ Restart

Spec == Init /\ [][Next]_vars

-----------------------------------------------------------------------------
(* Properties *)

\* The line of flushes keeps its promise: a change that a caller was told of is in
\* memory and in the file, and a flush that is under way will not take it out,
\* unless two first loads have raced or half a file was left behind.
GoalsKept ==
  clobbered \/
    /\ goals # Null => told \cap Change \subseteq goals
    /\ goalFile # Half => told \cap Change \subseteq goalFile
    /\ \A c \in Change : goalCall[c].state = "writing" => told \cap Change \subseteq goalCall[c].read
=============================================================================
