---------------------------- MODULE KnowledgeBase ----------------------------
(***************************************************************************)
(* The rules that lines are matched with: their files (knowledge/store.py),*)
(* the copy in memory, the requests that change them (api/routes/          *)
(* knowledge.py, each in a thread of its own) and the record of changes    *)
(* (persistence/knowledge_audit_store.py).                                 *)
(*                                                                         *)
(* There are two files: rules.yaml, which requests write and people edit,  *)
(* and vendor_rules.yaml, which only people edit.  Nothing locks the copy  *)
(* or a file: a reader takes in one file, then the other, and only then    *)
(* looks at their times of change; a writer builds the new rules.yaml from *)
(* the whole copy, empties the file and fills it again.                    *)
(***************************************************************************)
EXTENDS EventClassifier, Ordering

CONSTANTS
    RuleIds,
    Bodies,         \* what requests and edits may put into a rule
    FirstMain,      \* the rules in rules.yaml at first, ...
    FirstVendor,    \* ... and in vendor_rules.yaml
    Drafts,         \* what an edit by hand may leave in a file
    Admins          \* requests that may run at the same time

Statuses == {"pending", "approved", "disabled"}
Rules    == [id : RuleIds, status : Statuses, body : Bodies]
ApprovedIn(rules) == {rules[k].id : k \in {j \in DOMAIN rules : rules[j].status = "approved"}}
NoRule   == [id |-> "none", status |-> "none", body |-> NoBody]
Garbled  == <<NoRule>>     \* what was read is no list of rules: an exception

ASSUME KnowledgeAssumption ==
    /\ RuleIds # {}
    /\ {FirstMain, FirstVendor} \cup Drafts \subseteq Seq(Rules)

VARIABLES
    files,      \* rules.yaml and vendor_rules.yaml, the time of their last change, and
                \* whether rules.yaml is whole
    cache,      \* the rules in memory and the time of change they are taken for
    admins,     \* the requests
    audit       \* the changes recorded: rule, version, what it became

knowledgeVars == <<files, cache, admins, audit>>

IdleAdmin == [pc |-> "idle", then |-> "idle", op |-> "none", rule |-> CHOOSE r \in RuleIds : TRUE,
              new |-> NoRule, read |-> <<>>, version |-> 0]

InitKnowledge ==
    /\ files = [main |-> FirstMain, vendor |-> FirstVendor, time |-> 0, state |-> "whole"]
    /\ cache = [rules |-> FirstMain \o FirstVendor, time |-> 0]
    /\ admins = [a \in Admins |-> IdleAdmin]
    /\ audit = <<>>

-----------------------------------------------------------------------------
(* The files and their copy.                                                *)

\* Mutant: a rule without a status is approved.
ShortenedInForce(rule) ==
    [id : {rule.id}, status : {rule.status, "approved"}, body : Bodies]

\* What there may be of a list while it is written: the rules up to some place, the last
\* of them perhaps without the fields that follow; without a status it is pending.
Shortened(rule) ==
    [id : {rule.id}, status : {rule.status, "pending"}, body : Bodies]

Beginnings(rules) ==
    {SubSeq(rules, 1, k) : k \in 0..Len(rules)}
      \cup UNION {{Append(SubSeq(rules, 1, k - 1), last) : last \in Shortened(rules[k])}
                   : k \in DOMAIN rules}

\* What a reader finds in rules.yaml.  While it is written there may be nothing in it, or
\* it breaks off, where that is an error or not.
Readings ==
    CASE files.state = "whole" -> {files.main}
      [] files.state = "bad"   -> {Garbled}
      [] files.state = "cut"   ->
           {<<>>, Garbled} \cup UNION {Beginnings(admins[a].read) : a \in {b \in Admins : admins[b].pc = "write"}}

Stale == cache.time # files.time

\* The end of reload: what was read gets the time that the files have by then.
Publish(rules) == cache' = [rules |-> rules, time |-> files.time]

Written(rules, state) ==
    files' = [files EXCEPT !.main = rules, !.time = @ + 1, !.state = state]

\* Somebody edits a file while no request writes it: rules.yaml in one go, or so that it
\* is no more a list of rules; or vendor_rules.yaml.
EditRules ==
    /\ files.state # "cut"
    /\ \E rules \in Drafts :
         \/ Written(rules, "whole")
         \/ Written(<<>>, "bad")
         \/ files' = [files EXCEPT !.vendor = rules, !.time = @ + 1]
    /\ UNCHANGED <<cache, admins, audit>>

FirstOf(places) == CHOOSE k \in places : \A j \in places : k <= j

\* get_rule: the first rule of that id.
Find(r) ==
    LET places == {k \in DOMAIN cache.rules : cache.rules[k].id = r}
    IN  IF places = {} THEN NoRule ELSE cache.rules[FirstOf(places)]

\* The rules of the copy without those of one id, in their order.
Others(r) ==
    LET places == InOrder({k \in DOMAIN cache.rules : cache.rules[k].id # r})
    IN  [k \in DOMAIN places |-> cache.rules[places[k]]]

-----------------------------------------------------------------------------
(* The record of changes.                                                   *)

Records(r)  == {k \in DOMAIN audit : audit[k].rule = r}
Versions(r) == {audit[k].version : k \in Records(r)}

\* Mutant: what no change is recorded of begins at zero.
CountedFromZero(r) == IF Versions(r) = {} THEN 0
                      ELSE 1 + CHOOSE v \in Versions(r) : \A w \in Versions(r) : w <= v

NextVersion(r) == IF Versions(r) = {} THEN 1
                  ELSE 1 + CHOOSE v \in Versions(r) : \A w \in Versions(r) : w <= v

\* get_rule_version: the first record of that version.
Recorded(r, version) == audit[FirstOf({k \in Records(r) : audit[k].version = version})].new

-----------------------------------------------------------------------------
(* Requests.                                                                *)

Become(a, changes) == admins' = [admins EXCEPT ![a] = changes]

\* A rollback takes the rule from the record; the others look at the copy.
Ask(a, op, r, body) ==
    LET me == [admins[a] EXCEPT !.op = op, !.rule = r]
    IN
    /\ admins[a].pc = "idle"
    /\ \/ /\ op = "rolled_back"
          /\ \E version \in Versions(r) :
               Become(a, [me EXCEPT !.pc = "compose", !.new = Recorded(r, version)])
       \/ /\ op \in {"created", "updated"}
          /\ Become(a, [me EXCEPT !.pc = "look",
                                  !.new = [id |-> r, status |-> "pending", body |-> body]])
       \/ /\ op \in {"approved", "disabled"}
          /\ Become(a, [me EXCEPT !.pc = "look"])
    /\ UNCHANGED <<files, cache, audit>>

\* The beginning of reload: rules.yaml is read.  An exception ends the request.
Load(a, then) ==
    \E rules \in Readings :
      IF rules = Garbled THEN Become(a, IdleAdmin)
      ELSE Become(a, [admins[a] EXCEPT !.pc = "vendor", !.then = then, !.read = rules])

\* get_rule: reload_if_changed, then the copy.
Look(a) ==
    /\ admins[a].pc = "look"
    /\ IF Stale THEN Load(a, "decide") ELSE Become(a, [admins[a] EXCEPT !.pc = "decide"])
    /\ UNCHANGED <<files, cache, audit>>

LoadVendor(a) ==
    /\ admins[a].pc = "vendor"
    /\ Become(a, [admins[a] EXCEPT !.pc = "loaded", !.read = @ \o files.vendor])
    /\ UNCHANGED <<files, cache, audit>>

Reload(a) ==
    /\ admins[a].pc = "loaded"
    /\ Publish(admins[a].read)
    /\ Become(a, [admins[a] EXCEPT !.pc = admins[a].then, !.then = "idle", !.read = <<>>])
    /\ UNCHANGED <<files, audit>>

\* A rule that is there cannot be created, any other is needed; an update keeps the
\* status, approve and disable keep the rest.
Decide(a) ==
    /\ admins[a].pc = "decide"
    /\ LET old == Find(admins[a].rule)
           op  == admins[a].op
       IN  IF (op = "created") # (old = NoRule) THEN Become(a, IdleAdmin)
           ELSE Become(a, [admins[a] EXCEPT !.pc = "compose", !.new =
                  CASE op = "created" -> @
                    [] op = "updated" -> [@ EXCEPT !.status = old.status]
                    [] OTHER          -> [old EXCEPT !.status = op]])
    /\ UNCHANGED <<files, cache, audit>>

\* save_rule: what rules.yaml will hold are all the rules of the copy, those of the other
\* file too, and this one in place of those of its id; ...
Compose(a) ==
    /\ admins[a].pc = "compose"
    /\ Become(a, [admins[a] EXCEPT !.pc = "open",
                                   !.read = Append(Others(admins[a].rule), admins[a].new)])
    /\ UNCHANGED <<files, cache, audit>>

\* ... the file is emptied when it is opened, ...
OpenFile(a) ==
    /\ admins[a].pc = "open"
    /\ Written(<<>>, "cut")
    /\ Become(a, [admins[a] EXCEPT !.pc = "write"])
    /\ UNCHANGED <<cache, audit>>

\* ... and has the rules when it is closed.  What another request has written meanwhile is
\* written over, its end may stick out.
CloseFile(a) ==
    /\ admins[a].pc = "write"
    /\ \/ Written(admins[a].read, "whole")
       \/ files.state # "cut" /\ Written(<<>>, "bad")
    /\ Become(a, [admins[a] EXCEPT !.pc = "reread"])
    /\ UNCHANGED <<cache, audit>>

\* The files are read again; an exception ends the request, the file stays written.
Reread(a) ==
    /\ admins[a].pc = "reread"
    /\ Load(a, "number")
    /\ UNCHANGED <<files, cache, audit>>

\* record_rule_change: the version is found, ...
Number(a) ==
    /\ admins[a].pc = "number"
    /\ Become(a, [admins[a] EXCEPT !.pc = "record", !.version = NextVersion(admins[a].rule)])
    /\ UNCHANGED <<files, cache, audit>>

\* ... and the change is stored under it.
Record(a) ==
    /\ admins[a].pc = "record"
    /\ audit' = Append(audit, [rule |-> admins[a].rule, version |-> admins[a].version,
                               new |-> admins[a].new])
    /\ Become(a, IdleAdmin)
    /\ UNCHANGED <<files, cache>>

AdminStep(a) ==
    \/ Look(a) \/ LoadVendor(a) \/ Reload(a) \/ Decide(a) \/ Compose(a)
    \/ OpenFile(a) \/ CloseFile(a) \/ Reread(a) \/ Number(a) \/ Record(a)

-----------------------------------------------------------------------------
(* The process ends and starts.                                             *)

\* The requests are gone; of a file that was being written its beginning is left.
CrashKnowledge ==
    /\ admins' = [a \in Admins |-> IdleAdmin]
    /\ IF files.state = "cut"
       THEN \E rules \in Readings :
              files' = IF rules = Garbled THEN [files EXCEPT !.main = <<>>, !.state = "bad"]
                       ELSE [files EXCEPT !.main = rules, !.state = "whole"]
       ELSE UNCHANGED files
    /\ UNCHANGED <<cache, audit>>

\* The files are read into a new copy.
StartKnowledge ==
    /\ files.state # "bad"
    /\ Publish(files.main \o files.vendor)
    /\ UNCHANGED <<files, admins, audit>>
=============================================================================
