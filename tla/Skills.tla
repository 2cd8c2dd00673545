------------------------------- MODULE Skills -------------------------------
(***************************************************************************)
(* Skill packages on disk and the tools they give the running platform:    *)
(* LocalSkillRegistry (skills/src/local-registry.ts), the seeding of the   *)
(* builtin skills (bootstrap.ts), the loader and the mount of what is      *)
(* installed (loader.ts, tool-registrar.ts), the authoring tools that a    *)
(* turn calls (agent-worker/src/tools/skill-tools.ts) and the live tool    *)
(* registry with remountInstalledSkills (cli/src/runtime/platform.ts).     *)
(*                                                                         *)
(* Several turns may run authoring tools at once; each await of the code   *)
(* is a step.  A recursive rm is one step.  Signatures, ids and static     *)
(* checks refuse a definition before anything changes and are left out.    *)
(***************************************************************************)
EXTENDS Naturals, FiniteSets

CONSTANTS
  Skill,          \* skill ids, each the name of a directory
  Source,         \* the packages that may be installed
  Tool,           \* tool names
  toolOf,         \* the one tool that createTools() of a source returns
  version,        \* the version in a source's manifest
  bundled,        \* the source of each builtin skill
  CoreTool,       \* the platform's own tools, the authoring tools among them
  Job,            \* turns that may run an authoring tool
  None, Core,
  MaxRestarts     \* bound: starts of the platform

Builtin == DOMAIN bundled

\* Assumed of the constants; the modules that instantiate this one check it.
SkillsAssumption ==
  /\ toolOf \in [Source -> Tool] /\ version \in [Source -> Nat]
  /\ Builtin \subseteq Skill /\ bundled \in [Builtin -> Source]
  /\ CoreTool \subseteq Tool /\ MaxRestarts \in Nat
  /\ None \notin Source \cup Skill /\ Core \notin Skill \cup {None}

VARIABLES
  dirs,           \* the directories under installRoot
  disk,           \* their files: the package a file was copied from
  imported,       \* Node's module cache: what import() of a skill's URL gave
  live,           \* LiveToolRegistry.map: what backs each tool
  process,        \* "seeding", "serving" or "down"
  toSeed,         \* builtin skills the seeding loop has not looked at
  restarts,
  job             \* each authoring call under way, and the boot's own work

vars == <<dirs, disk, imported, live, process, toSeed, restarts, job>>

File == {"index.js", "manifest.json"}

Boot == "boot"
Actor == Job \cup {Boot}

Phase == {"idle", "staging", "clearing", "making", "copying", "removing",
          "listing", "mounting", "done"}

Idle == [kind |-> "none", phase |-> "idle", skill |-> None, source |-> None,
         files |-> {}, entries |-> {}, found |-> {}]

TypeOK ==
  /\ dirs \subseteq Skill
  /\ disk \in [Skill -> [File -> Source \cup {None}]]
  /\ imported \in [Skill -> Source \cup {None}]
  /\ live \in [Tool -> Skill \cup {Core, None}]
  /\ process \in {"seeding", "serving", "down"}
  /\ toSeed \subseteq Builtin
  /\ restarts \in 0..MaxRestarts
  /\ job \in [Actor -> [kind : {"none", "seed", "create", "remove", "mount"}, phase : Phase,
                        skill : Skill \cup {None}, source : Source \cup {None},
                        files : SUBSET File, entries : SUBSET Skill, found : SUBSET Skill]]

Empty == [f \in File |-> None]

Init ==
  /\ dirs = {} /\ disk = [s \in Skill |-> Empty]
  /\ imported = [s \in Skill |-> None]
  /\ live = [t \in Tool |-> IF t \in CoreTool THEN Core ELSE None]
  /\ process = "seeding" /\ toSeed = Builtin /\ restarts = 0
  /\ job = [a \in Actor |-> Idle]

-----------------------------------------------------------------------------
(* Writing a package to its directory: the same awaits for a create and for *)
(* a builtin that is seeded.                                                *)

Advance(a, phase) == job' = [job EXCEPT ![a].phase = phase]

\* rm of what a directory holds, before a copy takes its place.
Clear(a) ==
  /\ job[a].phase = "clearing"
  /\ dirs' = dirs \ {job[a].skill}
  /\ disk' = [disk EXCEPT ![job[a].skill] = Empty]
  /\ Advance(a, "making")
  /\ UNCHANGED <<imported, live, process, toSeed, restarts>>

MakeDir(a) ==
  /\ job[a].phase = "making"
  /\ dirs' = dirs \cup {job[a].skill}
  /\ job' = [job EXCEPT ![a].phase = "copying", ![a].files = File]
  /\ UNCHANGED <<disk, imported, live, process, toSeed, restarts>>

\* cp copies file by file, in the directory's order; when the directory has been
\* removed meanwhile it throws, and the call ends with an error.
CopyFile(a) ==
  LET s == job[a].skill IN
  /\ job[a].phase = "copying" /\ job[a].files # {}
  /\ IF s \in dirs
     THEN \E f \in job[a].files :
            /\ disk' = [disk EXCEPT ![s][f] = job[a].source]
            /\ job' = [job EXCEPT ![a].files = @ \ {f}]
     ELSE /\ job' = [job EXCEPT ![a] = Idle]
          /\ UNCHANGED disk
  /\ UNCHANGED <<dirs, imported, live, process, toSeed, restarts>>

\* A seeded builtin is followed by the next one, a created skill by the remount.
Copied(a) ==
  /\ job[a].phase = "copying" /\ job[a].files = {}
  /\ job' = [job EXCEPT ![a] = IF a = Boot THEN Idle
                               ELSE [@ EXCEPT !.phase = "listing", !.source = None]]
  /\ UNCHANGED <<dirs, disk, imported, live, process, toSeed, restarts>>

-----------------------------------------------------------------------------
(* seedBuiltinSkills: one builtin after the other *)

Seed(s) ==
  LET here == disk[s]["manifest.json"] IN
  /\ process = "seeding" /\ job[Boot] = Idle /\ s \in toSeed
  /\ toSeed' = toSeed \ {s}
  /\ IF here # None /\ version[bundled[s]] <= version[here]
     THEN UNCHANGED job
     ELSE job' = [job EXCEPT ![Boot] =
            [Idle EXCEPT !.kind = "seed", !.skill = s, !.source = bundled[s],
                         !.phase = IF here = None THEN "making" ELSE "clearing"]]
  /\ UNCHANGED <<dirs, disk, imported, live, process, restarts>>

\* The initial mount, before the runner exists.
FirstMount ==
  /\ process = "seeding" /\ job[Boot] = Idle /\ toSeed = {}
  /\ job' = [job EXCEPT ![Boot] = [Idle EXCEPT !.kind = "mount", !.phase = "listing"]]
  /\ UNCHANGED <<dirs, disk, imported, live, process, toSeed, restarts>>

-----------------------------------------------------------------------------
(* The authoring tools.  A call that is refused at once changes nothing. *)

Free(j) == process = "serving" /\ job[j].phase \in {"idle", "done"}

\* skill.create, up to the awaits that stage the package: a directory of that
\* name means "already installed".
Create(j, s, source) ==
  /\ Free(j) /\ s \notin dirs
  /\ job' = [job EXCEPT ![j] =
       [Idle EXCEPT !.kind = "create", !.skill = s, !.source = source, !.phase = "staging"]]
  /\ UNCHANGED <<dirs, disk, imported, live, process, toSeed, restarts>>

\* The package is staged and verified.  The second existsSync clears what a
\* concurrent create has put there since the first.
Staged(j) ==
  /\ job[j].phase = "staging"
  /\ \/ Advance(j, IF job[j].skill \in dirs THEN "clearing" ELSE "making")
     \/ job' = [job EXCEPT ![j] = Idle]
  /\ UNCHANGED <<dirs, disk, imported, live, process, toSeed, restarts>>

\* skill.remove: uninstall awaits rm, then the remount.
Remove(j, s) ==
  /\ Free(j) /\ s \in dirs
  /\ job' = [job EXCEPT ![j] = [Idle EXCEPT !.kind = "remove", !.skill = s, !.phase = "removing"]]
  /\ UNCHANGED <<dirs, disk, imported, live, process, toSeed, restarts>>

Uninstalled(j) ==
  /\ job[j].phase = "removing"
  /\ dirs' = dirs \ {job[j].skill}
  /\ disk' = [disk EXCEPT ![job[j].skill] = Empty]
  /\ Advance(j, "listing")
  /\ UNCHANGED <<imported, live, process, toSeed, restarts>>

\* skill.reload
Reload(j) ==
  /\ Free(j)
  /\ job' = [job EXCEPT ![j] = [Idle EXCEPT !.kind = "mount", !.phase = "listing"]]
  /\ UNCHANGED <<dirs, disk, imported, live, process, toSeed, restarts>>

-----------------------------------------------------------------------------
(* remountInstalledSkills *)

\* listInstalled: the directories whose manifest can be read.
List(a) ==
  /\ job[a].phase = "listing"
  /\ job' = [job EXCEPT ![a].phase = "mounting", ![a].found = {},
                        ![a].entries = {s \in dirs : disk[s]["manifest.json"] # None}]
  /\ UNCHANGED <<dirs, disk, imported, live, process, toSeed, restarts>>

\* What import() of a skill's entry point gives: the first module it ever gave,
\* and otherwise the file of now.
Module(s) == IF imported[s] # None THEN imported[s] ELSE disk[s]["index.js"]

\* One turn of mountInstalledSkills: the manifest is read again, the entry point
\* imported, and a tool whose name this scan has already seen is an error.
MountOne(a) ==
  \E s \in job[a].entries :
    LET readable == disk[s]["manifest.json"] # None
        loads == readable /\ Module(s) # None
        taken == \E o \in job[a].found : toolOf[Module(o)] = toolOf[Module(s)] IN
    /\ job[a].phase = "mounting"
    /\ imported' = IF loads THEN [imported EXCEPT ![s] = Module(s)] ELSE imported
    /\ job' = [job EXCEPT ![a].entries = @ \ {s},
                          ![a].found = IF loads /\ ~taken THEN @ \cup {s} ELSE @]
    /\ UNCHANGED <<dirs, disk, live, process, toSeed, restarts>>

\* What the mount offers under a tool's name.
Offered(a, t) == {s \in job[a].found : toolOf[imported[s]] = t}

\* What is left of a call that has returned.
Ended(a) ==
  IF a = Boot THEN Idle
  ELSE [Idle EXCEPT !.phase = "done", !.kind = job[a].kind, !.skill = job[a].skill]

\* Variant: whatever was found is registered.
RegisterAll(a) ==
  /\ job[a].phase = "mounting" /\ job[a].entries = {}
  /\ live' = [t \in Tool |-> IF Offered(a, t) # {} THEN CHOOSE s \in Offered(a, t) : TRUE ELSE live[t]]
  /\ job' = [job EXCEPT ![a] = Ended(a)]
  /\ process' = IF a = Boot THEN "serving" ELSE process
  /\ UNCHANGED <<dirs, disk, imported, toSeed, restarts>>

\* Every name in the live registry is kept, whatever backs it; the rest of what
\* was found is added.  The mount of the boot opens the platform.
Register(a) ==
  /\ job[a].phase = "mounting" /\ job[a].entries = {}
  /\ live' = [t \in Tool |-> IF live[t] = None /\ Offered(a, t) # {}
                             THEN CHOOSE s \in Offered(a, t) : TRUE ELSE live[t]]
  /\ job' = [job EXCEPT ![a] = Ended(a)]
  /\ process' = IF a = Boot THEN "serving" ELSE process
  /\ UNCHANGED <<dirs, disk, imported, toSeed, restarts>>

-----------------------------------------------------------------------------
(* The process *)

\* A stop or a crash: only the disk stays, with whatever was half copied.
Stop ==
  /\ process # "down"
  /\ process' = "down"
  /\ job' = [a \in Actor |-> Idle]
  /\ imported' = [s \in Skill |-> None]
  /\ live' = [t \in Tool |-> None]
  /\ toSeed' = {}
  /\ UNCHANGED <<dirs, disk, restarts>>

Restart ==
  /\ process = "down" /\ restarts < MaxRestarts
  /\ restarts' = restarts + 1
  /\ process' = "seeding" /\ toSeed' = Builtin
  /\ live' = [t \in Tool |-> IF t \in CoreTool THEN Core ELSE None]
  /\ UNCHANGED <<dirs, disk, imported, job>>

-----------------------------------------------------------------------------
Next ==
  \/ \E s \in Builtin : Seed(s)
  \/ FirstMount
  \/ \E j \in Job, s \in Skill : Remove(j, s) \/ \E source \in Source : Create(j, s, source)
  \/ \E j \in Job : Staged(j) \/ Uninstalled(j) \/ Reload(j)
  \/ \E a \in Actor : Clear(a) \/ MakeDir(a) \/ CopyFile(a) \/ Copied(a)
  \/ \E a \in Actor : List(a) \/ MountOne(a) \/ Register(a)
  \/ Stop \/ Restart

Spec == Init /\ [][Next]_vars

-----------------------------------------------------------------------------
(* Properties *)

\* Whatever calls of the authoring tools overlap, and whatever names their packages
\* give their tools, the platform's own tools stay what they are as long as the process
\* does (remountInstalledSkills, LiveToolRegistry.registerAll).
CoreKept ==
  [][process' # "down" => \A t \in Tool : live[t] = Core => live'[t] = Core]_<<process, live>>

\* A live tool runs the code the module cache holds for its skill, and no two
\* tools share a skill (mountInstalledSkills, loadSkillTools).
LiveFromCache ==
  \A t \in Tool : live[t] \in Skill => imported[live[t]] # None /\ toolOf[imported[live[t]]] = t
=============================================================================
