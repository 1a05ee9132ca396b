---------------------------- MODULE UseRepository ----------------------------
(***************************************************************************)
(* kiokuko-ai use: the binding of a repository, its .gitignore, the block  *)
(* in the agent file, the block left in an earlier agent file and the row  *)
(* of the registry are brought to one identity, or left as they were.      *)
(* The command holds the lock of managed files; the user edits files at    *)
(* any time, and servers resolve the repository and register it without    *)
(* the lock.                                                               *)
(*                                                                         *)
(* A file is the text of the user, the region that Kiokuko owns in it and  *)
(* a stamp of its identity.  The region is the identity and agent file in  *)
(* the binding, the entry in .gitignore, the identity in an agent block.   *)
(* A repository identity is one value: id and workspace belong together.   *)
(* The conditional file changes of AtomicFile are one step here.           *)
(***************************************************************************)
EXTENDS Naturals, Sequences, SequencesExt

CONSTANTS
    Uses,       \* commands
    Requests,   \* the options a command may be given
    None,
    Shared,     \* the identity derived from the remote
    Local,      \* the identity a server derives from the path
    MaxEdits,   \* bound: changes by the user
    MaxFaults   \* bound: failing calls and crashes

VARIABLES
    disk,       \* file -> content, None when absent
    project,    \* whether the repository has a remote, and its legacy binding
    root,       \* identity the registry has for the path, or None
    resolver,   \* identity a server has read and not yet registered, or None
    stamps,     \* file identities given out so far
    lock,       \* the command that has the lock
    task,       \* command -> its options, plan and progress
    bounds,     \* uses of the bounded actions
    text,       \* history: what the user wrote into a file last
    before,     \* history: the files and the registry when the command took the lock
    edited,     \* history: what others changed since then
    late        \* history: what others changed since its last check

vars == <<disk, project, root, resolver, stamps, lock, task, bounds, text, before, edited, late>>

Agents == {"agents", "other"}
Files == Agents \cup {"binding", "gitignore"}

\* The identity that is made when nothing else names one.
createRepositoryIdentity(p) == IF project.remote THEN Shared ELSE p

Fresh == [pc |-> "idle", req |-> None, retry |-> FALSE, retried |-> None, id |-> None, agent |-> None,
          previous |-> None, existing |-> None, plan |-> [f \in Files |-> None], now |-> [f \in Files |-> None],
          latest |-> None, installed |-> <<>>, failures |-> FALSE, error |-> None]

content(t, own, stamp) == [text |-> t, own |-> own, stamp |-> stamp]

\* A new repository, one with a legacy binding, one that is bound and
\* registered, or one whose rebinding was interrupted after its first write,
\* with text of the user around the block, or without.
Init ==
    /\ \E kind \in {"new", "remote", "legacy", "bound", "interrupted"}, t \in {0, 1} :
       LET bound == kind \in {"bound", "interrupted"} IN
        /\ project = [remote |-> kind = "remote", legacy |-> IF kind = "legacy" THEN [id |-> "old", agent |-> "agents"] ELSE None]
        /\ root = IF bound THEN "old" ELSE None
        /\ disk = [f \in Files |->
              CASE f = "binding" /\ bound -> content(0, [id |-> IF kind = "bound" THEN "old" ELSE "new", agent |-> "agents"], 1)
                [] f = "agents" /\ bound -> content(t, "old", 2)
                [] f = "agents" /\ ~bound /\ t = 1 -> content(t, None, 2)
                [] OTHER -> None]
        /\ text = [f \in Files |-> IF f = "agents" THEN t ELSE 0]
    /\ resolver = None /\ stamps = 2 /\ lock = None
    /\ task = [p \in Uses |-> Fresh]
    /\ bounds = [edits |-> 0, faults |-> 0]
    /\ before = [disk |-> disk, root |-> root] /\ edited = {} /\ late = {}

------------------------------------------------------------------------------
(* The user and the servers.                                               *)

userChanges(f, c) ==
    /\ bounds.edits < MaxEdits /\ bounds' = [bounds EXCEPT !.edits = @ + 1]
    /\ disk' = [disk EXCEPT ![f] = c] /\ stamps' = stamps + 1 /\ edited' = edited \cup {f} /\ late' = late \cup {f}
    /\ text' = [text EXCEPT ![f] = IF c = None THEN 0 ELSE c.text]
    /\ UNCHANGED <<project, root, resolver, lock, task, before>>

\* Text is written or emptied, and the block may be cut out with it.
editText(f) ==
    /\ f # "binding" /\ disk[f] # None
    /\ \E t \in {0, text[f] + 1}, own \in {disk[f].own, None} : userChanges(f, content(t, own, stamps + 1))

createFile(f) == f # "binding" /\ disk[f] = None /\ userChanges(f, content(1, None, stamps + 1))

deleteFile(f) == disk[f] # None /\ userChanges(f, None)

\* A binding comes with a checkout, or is written by hand.
bindByHand == \E agent \in Agents : userChanges("binding", content(0, [id |-> "hand", agent |-> agent], stamps + 1))

\* resolveProjectWorkspace: the binding, or the path in the registry, or the
\* remote, or the path itself names the project ...
resolveProjectWorkspace ==
    /\ resolver = None
    /\ resolver' = IF disk["binding"] # None THEN disk["binding"].own.id
                   ELSE IF project.legacy # None THEN project.legacy.id
                   ELSE IF root # None THEN root
                   ELSE IF project.remote THEN Shared
                   ELSE Local
    /\ UNCHANGED <<disk, project, root, stamps, lock, task, bounds, text, before, edited, late>>

\* registerRepositoryAndLocation: a path keeps its identity unless the
\* command rebinds it from exactly that one.
accepts(id, rebindFrom) == IF rebindFrom = None THEN root \in {None, id} ELSE root = rebindFrom

\* ... and is registered, unless the path belongs to another identity by now.
registerResolved ==
    /\ resolver # None /\ resolver' = None
    /\ root' = IF accepts(resolver, None) THEN resolver ELSE root
    /\ edited' = IF root' = root THEN edited ELSE edited \cup {"registry"}
    /\ UNCHANGED <<disk, project, stamps, lock, task, bounds, text, before, late>>

------------------------------------------------------------------------------
(* The lock and the plan.                                                  *)

to(p, change) == task' = [task EXCEPT ![p] = change]

stays == UNCHANGED <<disk, project, root, resolver, stamps, lock, bounds, text, before, edited, late>>

useRepository(p) ==
    /\ task[p].pc = "idle" /\ lock = None
    /\ \E req \in Requests :
        /\ req.refresh => root # None
        /\ to(p, [Fresh EXCEPT !.pc = IF req.refresh THEN "inspect" ELSE "binding",
                               !.req = IF req.refresh THEN [req EXCEPT !.id = root] ELSE req])
    /\ lock' = p /\ before' = [disk |-> disk, root |-> root] /\ edited' = {} /\ late' = {}
    /\ UNCHANGED <<disk, project, root, resolver, stamps, bounds, text>>

\* An error before the first write has nothing to take back.
refused(t, error) == [t EXCEPT !.pc = "release", !.error = error]

refuse(p, error) == to(p, refused(task[p], error))

fault == bounds.faults < MaxFaults /\ bounds' = [bounds EXCEPT !.faults = @ + 1]

\* readSettledBindingSnapshot, readSettledAgentPlan, readRetriedAgentPlan and
\* readStrictSettledTarget look until a file has one link and no change of
\* AtomicFile under way: the command gets the content or gives up.
settles(p, next) ==
    /\ \/ to(p, next) /\ UNCHANGED bounds
       \/ fault /\ refuse(p, "unsettled")
    /\ UNCHANGED <<disk, project, root, resolver, stamps, lock, text, before, edited, late>>

readSettledBindingSnapshot == disk["binding"]

readSettledAgentPlan(f) == disk[f]

readStrictSettledTarget(f) == disk[f]

existingBinding(snapshot) ==
    IF snapshot # None THEN snapshot.own ELSE project.legacy

\* inspectProjectAgentFile: what is wrong with a registered project.
inspectProjectAgentFile(id) ==
    LET binding == existingBinding(disk["binding"]) IN
    IF binding = None THEN "binding_missing"
    ELSE IF binding.id # id THEN "binding_mismatch"
    ELSE IF disk[binding.agent] = None THEN "agent_file_missing"
    ELSE IF disk[binding.agent].own = None THEN "managed_block_missing"
    ELSE "ok"

\* A refresh makes a missing agent file again only when the user says so.
refreshRegisteredProject(p) ==
    LET finding == inspectProjectAgentFile(task[p].req.id) IN
    /\ task[p].pc = "inspect"
    /\ \/ finding = "agent_file_missing" /\ refuse(p, "confirmation_required")
       \/ to(p, [task[p] EXCEPT !.pc = "binding",
             !.req.recreate = IF finding = "agent_file_missing" THEN existingBinding(disk["binding"]).agent ELSE None])
    /\ stays

\* The binding is read, and the identity and the agent file are settled.
planBinding(p) ==
    LET t == task[p]
        snapshot == readSettledBindingSnapshot
        existing == existingBinding(snapshot)
        agent == IF t.req.agent # None THEN t.req.agent ELSE IF existing # None THEN existing.agent ELSE "agents"
        id == IF t.req.force THEN t.req.id
              ELSE IF existing # None THEN existing.id
              ELSE IF t.req.id # None THEN t.req.id
              ELSE createRepositoryIdentity(p)
    IN
    /\ t.pc = "binding"
    /\ settles(p,
       IF \/ t.req.force /\ existing = None
          \/ t.req.force /\ existing.id = t.req.id
          \/ ~t.req.force /\ existing # None /\ t.req.id \notin {None, existing.id}
       THEN refused(t, "conflict")
       ELSE [t EXCEPT !.pc = "agent", !.id = id, !.agent = agent, !.existing = existing,
                            !.previous = IF existing # None /\ existing.agent # agent THEN existing.agent ELSE None,
                            !.plan["binding"] = snapshot, !.now["binding"] = snapshot])

renders(p, c) == c = None \/ c.own # task[p].id

\* readRetriedAgentPlan: a second attempt takes only the file that the
\* first one knew, or the one that it would have written.
readRetriedAgentPlan(t) ==
    LET c == disk[t.agent]
        known == t.retried
    IN
    \/ c = known
    \/ /\ ~t.req.skip /\ c # None /\ c.own = t.id
       /\ c.text = (IF known = None THEN 0 ELSE known.text) /\ (known = None \/ c.stamp # known.stamp)

planAgent(p) ==
    LET t == task[p]
        c == readSettledAgentPlan(t.agent)
    IN
    /\ t.pc = "agent"
    /\ settles(p,
       IF \/ t.retry /\ ~readRetriedAgentPlan(t)
          \/ t.req.must /\ c = None /\ t.req.recreate # t.agent
          \/ t.req.skip /\ c # None /\ c.own \notin {None, t.id}
       THEN refused(t, "conflict")
       ELSE [t EXCEPT !.pc = "previous", !.plan[t.agent] = c, !.now[t.agent] = c])

planRest(p) ==
    LET t == task[p]
        snapshots == [f \in Files |-> IF f = t.previous \/ (f = "gitignore" /\ t.req.ignore /\ t.plan["binding"] = None)
                                      THEN readStrictSettledTarget(f) ELSE t.plan[f]]
    IN
    /\ t.pc = "previous"
    /\ settles(p, [t EXCEPT !.pc = "database", !.plan = snapshots, !.now = snapshots])

initializeDatabase(p) ==
    /\ task[p].pc = "database"
    /\ \/ to(p, [task[p] EXCEPT !.pc = "writeBinding"]) /\ UNCHANGED bounds
       \/ fault /\ refuse(p, "database")
    /\ UNCHANGED <<disk, project, root, resolver, stamps, lock, text, before, edited, late>>

------------------------------------------------------------------------------
(* The files.                                                              *)

fails(t, error) == [t EXCEPT !.pc = "restore", !.error = error]

\* guardedWrite: file f becomes c if it is still as expected; a failed
\* cleanup after the change is an error, but the change is recorded first.
guardedWrite(p, f, expected, c, managed, next) ==
    LET t == task[p]
        after == IF c = None THEN None ELSE [c EXCEPT !.stamp = stamps + 1]
        done == [t EXCEPT !.pc = next, !.now[f] = after, !.latest = None,
                          !.installed = Append(@, [file |-> f, original |-> t.plan[f], installed |-> after, managed |-> managed])]
    IN
    /\ \/ disk[f] # expected /\ to(p, fails(t, "conflict")) /\ UNCHANGED <<disk, stamps, bounds>>
       \/ fault /\ to(p, fails(t, "io")) /\ UNCHANGED <<disk, stamps>>
       \/ /\ disk[f] = expected
          /\ disk' = [disk EXCEPT ![f] = after] /\ stamps' = stamps + 1
          /\ \/ to(p, done) /\ UNCHANGED bounds
             \/ fault /\ to(p, fails(done, "io"))
    /\ UNCHANGED <<project, root, resolver, lock, text, before, edited, late>>

\* assertFileExpectation for a file that needs no change.
assertUnchanged(p, f, next) ==
    /\ to(p, IF disk[f] = task[p].plan[f] THEN [task[p] EXCEPT !.pc = next] ELSE fails(task[p], "conflict"))
    /\ stays

mayConverge(t) == ~t.retry /\ t.existing = None /\ t.req.id = None

\* readConcurrentBinding: the binding somebody else has just created.
readConcurrentBinding(p) ==
    LET t == task[p]
        found == disk["binding"]
    IN
    /\ disk["binding"] # t.plan["binding"] /\ mayConverge(t)
    /\ to(p, IF found # None /\ found.own.agent = t.agent
             THEN [t EXCEPT !.pc = "restore", !.error = "concurrent", !.latest = found]
             ELSE fails(t, "conflict"))
    /\ stays

writeBinding(p) ==
    LET t == task[p]
        binding == [id |-> t.id, agent |-> t.agent]
        snapshot == t.plan["binding"]
    IN
    /\ t.pc = "writeBinding"
    /\ IF snapshot # None /\ snapshot.own = binding THEN assertUnchanged(p, "binding", "writeGitignore")
       ELSE \/ readConcurrentBinding(p)
            \/ /\ ~(disk["binding"] # snapshot /\ mayConverge(t))
               /\ guardedWrite(p, "binding", snapshot, content(0, binding, 0), FALSE, "writeGitignore")

writeGitignore(p) ==
    LET t == task[p]
        snapshot == t.plan["gitignore"]
    IN
    /\ t.pc = "writeGitignore"
    /\ IF ~t.req.ignore \/ t.plan["binding"] # None THEN to(p, [t EXCEPT !.pc = "readAgent"]) /\ stays
       ELSE IF snapshot # None /\ snapshot.own = "entry" THEN assertUnchanged(p, "gitignore", "readAgent")
       ELSE guardedWrite(p, "gitignore", snapshot, content(IF snapshot = None THEN 0 ELSE snapshot.text, "entry", 0), FALSE, "readAgent")

ownOf(c) == IF c = None THEN None ELSE c.own

\* guardedAgentWrite reads the file once more and rebases the block onto it.
readAgent(p) ==
    LET t == task[p]
        base == t.plan[t.agent]
        latest == disk[t.agent]
    IN
    /\ t.pc = "readAgent"
    /\ IF t.req.skip THEN to(p, [t EXCEPT !.pc = "readPrevious"]) /\ stays
       ELSE IF ~renders(p, base) THEN assertUnchanged(p, t.agent, "readPrevious")
       ELSE /\ to(p, IF base # None /\ latest = None THEN fails(t, "deleted")
                     ELSE IF ownOf(latest) = t.id THEN [t EXCEPT !.pc = "readPrevious", !.now[t.agent] = latest]
                     ELSE IF ownOf(latest) # ownOf(base) THEN fails(t, "conflict")
                     ELSE [t EXCEPT !.pc = "writeAgent", !.latest = latest])
            /\ stays

writeAgent(p) ==
    LET t == task[p] IN
    /\ t.pc = "writeAgent"
    /\ guardedWrite(p, t.agent, t.latest, content(IF t.latest = None THEN 0 ELSE t.latest.text, t.id, 0), TRUE, "readPrevious")

\* The block in an earlier agent file is taken out of what the file is now.
readPrevious(p) ==
    LET t == task[p]
        latest == disk[t.previous]
    IN
    /\ t.pc = "readPrevious"
    /\ to(p, IF t.previous = None \/ (t.previous # None /\ t.plan[t.previous] = None) THEN [t EXCEPT !.pc = "check"]
             ELSE IF latest = None THEN fails(t, "deleted")
             ELSE IF latest.own = None THEN [t EXCEPT !.pc = "check", !.now[t.previous] = latest]
             ELSE IF latest.own # t.plan[t.previous].own THEN fails(t, "conflict")
             ELSE [t EXCEPT !.pc = "writePrevious", !.latest = latest])
    /\ stays

removePreviousBlock(p) ==
    LET t == task[p]
        rest == IF t.latest.text = 0 THEN None ELSE content(t.latest.text, None, 0)
    IN
    /\ t.pc = "writePrevious"
    /\ guardedWrite(p, t.previous, t.latest, rest, rest # None, "check")

involved(t) ==
    {"binding", t.agent} \cup (IF t.previous = None THEN {} ELSE {t.previous})
        \cup (IF t.req.ignore /\ t.plan["binding"] = None THEN {"gitignore"} ELSE {})

\* Every file is what the command made of it, or found it to be.
checkFiles(p) ==
    LET t == task[p] IN
    /\ t.pc = "check"
    /\ IF \A f \in involved(t) : disk[f] = t.now[f]
       THEN to(p, [t EXCEPT !.pc = "register"]) /\ late' = {}
       ELSE to(p, fails(t, "conflict")) /\ UNCHANGED late
    /\ UNCHANGED <<disk, project, root, resolver, stamps, lock, bounds, text, before, edited>>

\* The row of the registry; after a commit that may have happened, and after
\* a connection that did not close, the files are left as they are.
registerRepositoryAndLocation(p) ==
    LET t == task[p]
        from == IF t.req.force THEN t.existing.id ELSE None
        end == [t EXCEPT !.pc = "release"]
    IN
    /\ t.pc = "register"
    /\ \/ ~accepts(t.id, from) /\ to(p, fails(t, "conflict")) /\ UNCHANGED <<root, bounds>>
       \/ accepts(t.id, from) /\ root' = t.id /\ to(p, end) /\ UNCHANGED bounds
       \/ /\ accepts(t.id, from) /\ fault
          /\ \/ to(p, fails(t, "registration")) /\ UNCHANGED root
             \/ root' \in {root, t.id} /\ to(p, [end EXCEPT !.error = "uncertain"])
             \/ root' = t.id /\ to(p, [end EXCEPT !.error = "close"])
    /\ UNCHANGED <<disk, project, resolver, stamps, lock, text, before, edited, late>>

------------------------------------------------------------------------------
(* The way back.                                                           *)

\* Of an agent file only the block counts, of the others everything.
changedByOthers(m, now) ==
    IF m.managed THEN now = None \/ ownOf(now) # ownOf(m.installed) ELSE now # m.installed

\* Slip: the snapshot of the plan is put back whatever the text is now.
restoredWhole(m, now) == m.original

\* The block goes back to what it was, amid the text of now.
restored(m, now) ==
    IF ~m.managed THEN m.original
    ELSE IF ownOf(m.original) = None /\ now.text = 0 /\ now.own # None THEN None
    ELSE content(now.text, ownOf(m.original), now.stamp)

restoreInstalledWrites(p) ==
    LET t == task[p]
        m == Last(t.installed)
        rest == [t EXCEPT !.installed = Front(@)]
    IN
    /\ t.pc = "restore" /\ t.installed # <<>>
    /\ \/ /\ ~changedByOthers(m, disk[m.file])
          /\ LET c == restored(m, disk[m.file])
             IN disk' = [disk EXCEPT ![m.file] = IF c = None THEN None ELSE [c EXCEPT !.stamp = stamps + 1]]
          /\ stamps' = stamps + 1 /\ to(p, rest) /\ UNCHANGED bounds
       \/ /\ IF changedByOthers(m, disk[m.file]) THEN UNCHANGED bounds ELSE fault
          /\ to(p, [rest EXCEPT !.failures = TRUE]) /\ UNCHANGED <<disk, stamps>>
    /\ UNCHANGED <<project, root, resolver, lock, text, before, edited, late>>

\* A binding that appeared meanwhile is adopted once: the command starts
\* again with its identity.
endRestoration(p) ==
    LET t == task[p] IN
    /\ t.pc = "restore" /\ t.installed = <<>>
    /\ to(p, IF t.error = "concurrent" /\ ~t.failures
             THEN [Fresh EXCEPT !.pc = "binding", !.req = [t.req EXCEPT !.id = t.latest.own.id],
                                !.retry = TRUE, !.retried = t.plan[t.agent]]
             ELSE [t EXCEPT !.pc = "release"])
    /\ stays

\* After a refresh the project is inspected once more.
release(p) ==
    /\ task[p].pc = "release" /\ lock' = None
    /\ to(p, [Fresh EXCEPT !.pc = "done", !.error =
          IF task[p].error = None /\ task[p].req.refresh /\ inspectProjectAgentFile(task[p].req.id) # "ok"
          THEN "verification_failed" ELSE task[p].error])
    /\ UNCHANGED <<disk, project, root, resolver, stamps, bounds, text, before, edited, late>>

crash(p) ==
    /\ lock = p /\ fault
    /\ lock' = None /\ to(p, [Fresh EXCEPT !.pc = "crashed"])
    /\ UNCHANGED <<disk, project, root, resolver, stamps, text, before, edited, late>>

Next ==
    \/ \E f \in Files : editText(f) \/ createFile(f) \/ deleteFile(f)
    \/ bindByHand \/ resolveProjectWorkspace \/ registerResolved
    \/ \E p \in Uses :
        \/ useRepository(p) \/ refreshRegisteredProject(p) \/ planBinding(p) \/ planAgent(p) \/ planRest(p)
        \/ initializeDatabase(p) \/ writeBinding(p) \/ writeGitignore(p) \/ readAgent(p) \/ writeAgent(p)
        \/ readPrevious(p) \/ removePreviousBlock(p) \/ checkFiles(p) \/ registerRepositoryAndLocation(p)
        \/ restoreInstalledWrites(p) \/ endRestoration(p) \/ release(p) \/ crash(p)

Spec == Init /\ [][Next]_vars

------------------------------------------------------------------------------
(* One identity or none: when a command ends well, the registry, the       *)
(* binding and the agent file name the identity it settled on, and the     *)
(* earlier agent file has no block left, except for what others changed    *)
(* after the last check; when it ends with an error that is not about a    *)
(* commit, and nothing failed on the way back, what others left alone owns *)
(* what it owned before.  The text of the user outlives all of it.         *)
UseKeepsOneIdentity ==
    /\ \A p \in Uses : LET t == task[p] IN
        t.pc = "release" /\ t.error = None =>
          /\ root = t.id
          /\ "binding" \notin late => ownOf(disk["binding"]) = [id |-> t.id, agent |-> t.agent]
          /\ t.agent \notin late /\ ~t.req.skip => ownOf(disk[t.agent]) = t.id
          /\ t.previous # None /\ t.previous \notin late => ownOf(disk[t.previous]) = None
    /\ \A p \in Uses : LET t == task[p] IN
        t.pc = "release" /\ t.error \notin {None, "uncertain", "close"} /\ ~t.failures =>
          /\ \A f \in Files \ edited : ownOf(disk[f]) = ownOf(before.disk[f])
          /\ "registry" \notin edited => root = before.root
    /\ \A f \in Files : text[f] # 0 => disk[f] # None /\ disk[f].text = text[f]
==============================================================================
