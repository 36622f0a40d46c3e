------------------------------- MODULE Skills -------------------------------
(***************************************************************************)
(* One skill of the project (src/cwe/skills.py): drafts are distilled from *)
(* runs, a person approves the skill with the command line, agents load it *)
(* when it is approved.  Each is a process of its own and the store has no *)
(* lock: put() opens the file, which empties it, and then writes from its  *)
(* beginning (on S3 the two are one step, which is one of the orders).     *)
(* A text is the status that parse_skill reads in it, the drafts of which  *)
(* there is something in its body, and its length.                         *)
(***************************************************************************)
EXTENDS Naturals

CONSTANTS
    Drafter,    \* sessions that distill: each drafts a body of its own
    Approver    \* calls of "cwe skill approve"

SkillsAssumption == Drafter \cap Approver = {}

VARIABLES
    skill,      \* SKILL.md
    put,        \* each writer's call of put()
    approved,   \* history: the bodies that approve() loaded
    given,      \* history: the bodies that agents loaded
    blended,    \* history: the bodies of two texts that were written at once
    carried     \* history: the bodies of drafts whose description carries a status
vars == <<skill, put, approved, given, blended, carried>>

Writer == Drafter \cup Approver
Length == 1..2      \* bound: short or long
Body == SUBSET Drafter
Text == [status : {"draft", "approved"}, body : Body, length : Length \cup {0}]
Missing == [status |-> "missing", body |-> {}, length |-> 0]
Empty == [status |-> "draft", body |-> {}, length |-> 0]

TypeOK ==
    /\ skill \in Text \cup {Missing}
    /\ put \in [Writer -> [step : {"idle", "open", "write", "done"}, text : Text \cup {Missing}]]
    /\ approved \subseteq Body /\ given \subseteq Body /\ blended \subseteq Body /\ carried \subseteq Body

Init ==
    /\ skill = Missing /\ put = [w \in Writer |-> [step |-> "idle", text |-> Missing]]
    /\ approved = {} /\ given = {} /\ blended = {} /\ carried = {}

-----------------------------------------------------------------------------
(* save() *)

Save(w, text) ==
    /\ put[w].step = "idle" /\ put' = [put EXCEPT ![w] = [step |-> "open", text |-> text]]

(* What parse_skill makes of an empty file is a draft.                      *)
Open(w) ==
    /\ put[w].step = "open" /\ put' = [put EXCEPT ![w].step = "write"]
    /\ skill' = Empty
    /\ UNCHANGED <<approved, given, blended, carried>>

(* What another has written since the file was emptied stays behind the end *)
(* of a shorter text.                                                      *)
Over(text) == [text EXCEPT !.body = @ \cup skill.body, !.length = skill.length]

Write(w) ==
    /\ put[w].step = "write" /\ put' = [put EXCEPT ![w].step = "done"]
    /\ IF skill.length > put[w].text.length
          THEN skill' = Over(put[w].text) /\ blended' = blended \cup {skill'.body}
          ELSE skill' = put[w].text /\ UNCHANGED blended
    /\ UNCHANGED <<approved, given, carried>>

(* Mutant: a draft keeps the status of the skill whose name it takes.       *)
DraftOver(d, carries, length) ==
    [status |-> IF carries \/ skill.status = "approved" THEN "approved" ELSE "draft",
     body |-> {d}, length |-> length]

(* The frontmatter ends at the first "---": a description of several lines  *)
(* may carry a status, and that end, in front of the draft's own.           *)
Draft(d, carries, length) ==
    [status |-> IF carries THEN "approved" ELSE "draft", body |-> {d}, length |-> length]

(* The name and the description of a draft are the model's choice: the name *)
(* may be taken, by a skill that is approved.                              *)
DistillSkill(d) ==
    /\ \E carries \in BOOLEAN, length \in Length :
          /\ Save(d, Draft(d, carries, length))
          /\ carried' = IF carries THEN carried \cup {{d}} ELSE carried
    /\ UNCHANGED <<skill, approved, given, blended>>

(* approve() saves, approved, what it has loaded, whatever comes between.   *)
Approve(a) ==
    /\ skill # Missing /\ Save(a, [skill EXCEPT !.status = "approved"])
    /\ approved' = approved \cup {skill.body}
    /\ UNCHANGED <<skill, given, blended, carried>>

-----------------------------------------------------------------------------
(* The tools list_skills and load_skill.                                    *)
Loadable(text) == text.status = "approved"

LoadSkill ==
    /\ Loadable(skill) /\ given' = given \cup {skill.body}
    /\ UNCHANGED <<skill, put, approved, blended, carried>>

Next ==
    \/ \E d \in Drafter : DistillSkill(d)
    \/ \E a \in Approver : Approve(a)
    \/ \E w \in Writer : Open(w) \/ Write(w)
    \/ LoadSkill

Spec == Init /\ [][Next]_vars

-----------------------------------------------------------------------------
(* "status=draft; the agent reads it once a human approves it" (session.py  *)
(* 431): whatever drafts are saved beside, agents load what some approve()  *)
(* has read, but for two texts that were written over each other and drafts *)
(* whose description carries a status of its own.                          *)
AgentReadsApproved == given \subseteq approved \cup blended \cup carried
=============================================================================
