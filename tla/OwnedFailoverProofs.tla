------------------------ MODULE OwnedFailoverProofs ------------------------
(***************************************************************************)
(* One lineage, for any number of nodes, commits, crashes, failed requests *)
(* and lease moves: whoever founds, restores and resumes the stream.       *)
(***************************************************************************)
EXTENDS OwnedFailover, TLAPS

\* No node calls run_replication, which gives the stream a new lineage.
NoRun == \A b \in Budgets : b["run"] = 0

\* None stands for no state.json: it is not a state.
NoneIsNoState == \A lin, seq, sum, off : State(lin, seq, sum, off) # None

Founding == {"add_put", "add_save"}
Writing  == {"put", "save", "tick"}
Resuming == {"restore", "probe", "resume_put", "resume_save"}

\* A registered database, and a resume under way, are in the lineage of state.json;
\* whoever publishes is registered.
InLineage(n) == st[n] # None => stateJson # None /\ st[n].lin = stateJson.lin

JobInLineage(n) ==
  job[n] # None =>
    /\ "pc" \in DOMAIN job[n]
    /\ job[n].pc \in Founding \cup Writing \cup Resuming
    /\ job[n].pc \in Writing => st[n] # None
    /\ job[n].pc \in Resuming =>
         "lin" \in DOMAIN job[n] /\ stateJson # None /\ job[n].lin = stateJson.lin

LineageInv ==
  /\ DOMAIN budget = Kinds /\ budget["run"] = 0
  /\ DOMAIN st = Nodes /\ DOMAIN job = Nodes
  /\ \A n \in Nodes : InLineage(n) /\ JobInLineage(n)

\* What an operation leaves alone stays as it was.
Unmoved == DOMAIN budget' = Kinds /\ budget'["run"] = 0

\* A fault other than a call of run_replication leaves its budget at zero.
LEMMA SpendKeepsRun ==
  ASSUME LineageInv, NEW k \in Kinds, Spend(k)
  PROVE  k # "run" /\ Unmoved
  BY DEF LineageInv, Spend, Unmoved, Kinds

\* Nothing is registered and nothing stored at first.
LEMMA InitLineage == ASSUME NoRun, NoneIsNoState PROVE Init => LineageInv
<1> SUFFICES ASSUME Init PROVE LineageInv
  BY Zenon
<1>1. DOMAIN budget = Kinds /\ budget["run"] = 0
  BY Zenon, NodesAssumption DEF Init, NoRun, Kinds
<1>2. DOMAIN st = Nodes /\ DOMAIN job = Nodes /\ \A n \in Nodes : JobInLineage(n)
  BY Zenon DEF Init, JobInLineage
<1>3. ASSUME NEW n \in Nodes PROVE InLineage(n)
  <2>1. CASE budget["found"] > 0
    BY Zenon, <2>1 DEF Init, InLineage
  <2>2. CASE ~(budget["found"] > 0)
    BY Zenon, <2>2, NodesAssumption DEF Init, InLineage, NoneIsNoState
  <2> QED BY Zenon, <2>1, <2>2
<1> QED BY Zenon, <1>1, <1>2, <1>3 DEF LineageInv

\* A step that leaves state.json, the registered databases and all jobs but those
\* it ends as they are.
LEMMA EndsJobs ==
  ASSUME LineageInv, Unmoved, UNCHANGED <<st, stateJson>>, DOMAIN job' = Nodes,
         \A n \in Nodes : job'[n] = job[n] \/ job'[n] = None
  PROVE  LineageInv'
  BY Zenon DEF LineageInv, Unmoved, InLineage, JobInLineage

\* The operations of OwnedFailover, one by one.
LEMMA StepLineage ==
  ASSUME NoneIsNoState, LineageInv, [Next]_vars
  PROVE  LineageInv' /\ (stateJson # None => stateJson' # None /\ stateJson'.lin = stateJson.lin)
<1> DEFINE Kept == stateJson # None => stateJson' # None /\ stateJson'.lin = stateJson.lin
<1> USE DEF Kinds
<1>0. CASE UNCHANGED vars
  BY Zenon, <1>0 DEF vars, LineageInv, InLineage, JobInLineage
<1>a. ASSUME UNCHANGED budget PROVE Unmoved
  BY Zenon, <1>a DEF LineageInv, Unmoved
<1>1. ASSUME NEW n \in Nodes, Commit(n) PROVE LineageInv' /\ Kept
  BY Zenon, <1>1, SpendKeepsRun, EndsJobs DEF Commit, LineageInv
<1>2. ASSUME NEW n \in Nodes, MoveLease(n) PROVE LineageInv' /\ Kept
  BY Zenon, <1>2, SpendKeepsRun, EndsJobs DEF MoveLease, LineageInv
<1>3. ASSUME NEW n \in Nodes, Crash(n) PROVE LineageInv' /\ Kept
  <2>1. Unmoved BY <1>3, SpendKeepsRun DEF Crash
  <2> QED BY Zenon, <1>3, <2>1 DEF Crash, LineageInv, Unmoved, InLineage, JobInLineage
<1>4. ASSUME NEW n \in Nodes, Compact(n) PROVE LineageInv' /\ Kept
  BY Zenon, <1>4, SpendKeepsRun, EndsJobs DEF Compact, LineageInv
<1>5. ASSUME NEW n \in Nodes, Tick(n) PROVE LineageInv' /\ Kept
  <2>1. Unmoved BY <1>5, SpendKeepsRun DEF Tick
  <2> QED BY Zenon, <1>5, <2>1 DEF Tick, LineageInv, Unmoved, InLineage, JobInLineage, Writing, Resuming
<1>6. ASSUME NEW n \in Nodes, Add(n) PROVE LineageInv' /\ Kept
  BY Zenon, <1>6, <1>a DEF Add, LineageInv, Unmoved, InLineage, JobInLineage, Founding, Writing, Resuming
<1>7. ASSUME NEW n \in Nodes, RunReplication(n) PROVE FALSE
  BY Zenon, <1>7, SpendKeepsRun DEF RunReplication
<1>8. ASSUME NEW n \in Nodes, SyncRead(n) PROVE LineageInv' /\ Kept
  BY Zenon, <1>8, <1>a DEF SyncRead, LineageInv, Unmoved, InLineage, JobInLineage, Writing, Resuming
<1>9. ASSUME NEW n \in Nodes, SyncPut(n) PROVE LineageInv' /\ Kept
  <2> DEFINE key == <<st[n].lin, st[n].seq + 1>>
  <2>1. st[n] # None /\ stateJson # None /\ st[n].lin = stateJson.lin /\ "pc" \in DOMAIN job[n]
    BY Zenon, <1>9 DEF SyncPut, LineageInv, InLineage, JobInLineage, Writing
  <2>2. CASE Takes(live, key, job[n].obj)
    <3>1. \E v : /\ v # None /\ v.lin = stateJson.lin /\ st' = [st EXCEPT ![n] = v]
                 /\ job' = [job EXCEPT ![n] = [job[n] EXCEPT !.pc = "save"]]
      BY Zenon, <1>9, <2>1, <2>2 DEF SyncPut, State, NoneIsNoState
    <3> QED BY <1>9, <1>a, <2>1, <3>1
            DEF SyncPut, LineageInv, Unmoved, InLineage, JobInLineage, Writing, Resuming
  <2>3. CASE ~Takes(live, key, job[n].obj)
    BY Zenon, <1>9, <1>a, <2>3, EndsJobs DEF SyncPut, Fail, LineageInv
  <2> QED BY Zenon, <2>2, <2>3
<1>10. ASSUME NEW n \in Nodes, SyncSave(n) PROVE LineageInv' /\ Kept
  <2>1. st[n] # None /\ stateJson # None /\ st[n].lin = stateJson.lin
    BY Zenon, <1>10 DEF SyncSave, LineageInv, InLineage, JobInLineage, Writing
  <2> QED BY Zenon, <1>10, <1>a, <2>1 DEF SyncSave, Fail, LineageInv, Unmoved, InLineage, JobInLineage
<1>11. ASSUME NEW n \in Nodes, TickPut(n) PROVE LineageInv' /\ Kept
  <2> DEFINE key == <<st[n].lin, st[n].seq + 1>>
  <2>1. st[n] # None /\ stateJson # None /\ st[n].lin = stateJson.lin
    BY Zenon, <1>11 DEF TickPut, LineageInv, InLineage, JobInLineage, Writing
  <2>2. CASE Takes(snaps, key, job[n].obj)
    <3>1. PICK v : v # None /\ v.lin = stateJson.lin /\ st' = [st EXCEPT ![n] = v]
      BY Zenon, <1>11, <2>1, <2>2 DEF TickPut, State, NoneIsNoState
    <3>2. Unmoved /\ UNCHANGED stateJson /\ job' = [job EXCEPT ![n] = None]
      BY Zenon, <1>11, <1>a DEF TickPut, Fail
    <3>3. \A m \in Nodes : InLineage(m)'
      BY Zenon, <2>1, <3>1, <3>2 DEF LineageInv, InLineage
    <3>4. \A m \in Nodes : JobInLineage(m)'
      BY Zenon, <3>1, <3>2 DEF LineageInv, JobInLineage
    <3> QED BY Zenon, <3>1, <3>2, <3>3, <3>4 DEF LineageInv, Unmoved
  <2>3. CASE ~Takes(snaps, key, job[n].obj)
    BY Zenon, <1>11, <1>a, <2>3, EndsJobs DEF TickPut, Fail, LineageInv
  <2> QED BY Zenon, <2>2, <2>3
<1>12. ASSUME NEW n \in Nodes, AddPut(n) PROVE LineageInv' /\ Kept
  <2>1. "pc" \in DOMAIN job[n] /\ job[n].pc = "add_put"
    BY Zenon, <1>12 DEF AddPut, LineageInv, JobInLineage, Founding, Writing, Resuming
  <2>2. job' = [job EXCEPT ![n] = [job[n] EXCEPT !.pc = "add_save"]]
    BY Zenon, <1>12, <2>1 DEF AddPut
  <2> QED BY <1>12, <1>a, <2>1, <2>2
          DEF AddPut, LineageInv, Unmoved, InLineage, JobInLineage, Founding, Writing, Resuming
<1>13. ASSUME NEW n \in Nodes, AddSave(n) PROVE LineageInv' /\ Kept
  <2>1. CASE stateJson = None
    <3>1. \E v : v # None /\ stateJson' = v /\ st' = [st EXCEPT ![n] = v]
      BY Zenon, <1>13, <2>1 DEF AddSave, NoneIsNoState
    <3>2. \A m \in Nodes : st[m] = None
      BY Zenon, <2>1 DEF LineageInv, InLineage
    <3>3. \A m \in Nodes : job[m] # None => job[m].pc \notin Resuming \cup Writing
      BY Zenon, <2>1, <3>2 DEF LineageInv, JobInLineage
    <3> QED BY Zenon, <1>13, <1>a, <2>1, <3>1, <3>2, <3>3
            DEF AddSave, Fail, LineageInv, Unmoved, InLineage, JobInLineage
  <2>2. CASE stateJson # None
    BY Zenon, <1>13, <1>a, <2>2, EndsJobs DEF AddSave, Fail, LineageInv
  <2> QED BY Zenon, <2>1, <2>2
<1>14. ASSUME NEW n \in Nodes, RunSave(n) PROVE FALSE
  BY Zenon, <1>14 DEF RunSave, LineageInv, JobInLineage, Founding, Writing, Resuming
<1>15. ASSUME NEW n \in Nodes, RestoreBase(n) PROVE LineageInv' /\ Kept
  BY Zenon, <1>15, <1>a DEF RestoreBase, LineageInv, Unmoved, InLineage, JobInLineage, Writing, Resuming
<1>16. ASSUME NEW n \in Nodes, RestoreApply(n) PROVE LineageInv' /\ Kept
  <2> DEFINE r == RestoreFrom(job[n].lin, job[n].base)
  <2>1. stateJson # None /\ job[n].lin = stateJson.lin
    BY Zenon, <1>16 DEF RestoreApply, LineageInv, JobInLineage, Resuming
  <2>2. CASE r.ok /\ Sound(Content(r.sum))
    <3>1. job' = [job EXCEPT ![n] = RestoreResult(job[n].lin, r)]
      BY Zenon, <1>16, <2>2 DEF RestoreApply
    <3>2. /\ "pc" \in DOMAIN RestoreResult(job[n].lin, r) /\ "lin" \in DOMAIN RestoreResult(job[n].lin, r)
          /\ RestoreResult(job[n].lin, r).pc = "probe" /\ RestoreResult(job[n].lin, r).lin = stateJson.lin
      BY Zenon, <2>1 DEF RestoreResult
    <3> HIDE DEF r
    <3> QED BY Zenon, <1>16, <1>a, <2>1, <3>1, <3>2
            DEF RestoreApply, LineageInv, Unmoved, InLineage, JobInLineage, Writing, Resuming
  <2>3. CASE ~(r.ok /\ Sound(Content(r.sum)))
    BY Zenon, <1>16, <1>a, <2>3, EndsJobs DEF RestoreApply, Fail, LineageInv
  <2> QED BY Zenon, <2>2, <2>3
<1>17. ASSUME NEW n \in Nodes, ResumeProbe(n) PROVE LineageInv' /\ Kept
  <2>1. CASE n = lease /\ Free(job[n].lin, job[n].seq + 1)
    BY <1>17, <1>a, <2>1
       DEF ResumeProbe, LineageInv, Unmoved, InLineage, JobInLineage, Writing, Resuming
  <2>2. CASE ~(n = lease /\ Free(job[n].lin, job[n].seq + 1))
    BY Zenon, <1>17, <1>a, <2>2, EndsJobs DEF ResumeProbe, Fail, LineageInv
  <2> QED BY Zenon, <2>1, <2>2
<1>18. ASSUME NEW n \in Nodes, ResumePut(n) PROVE LineageInv' /\ Kept
  <2>1. CASE n = lease /\ Takes(snaps, ResumeKey(n), ResumeSnap(n))
    BY <1>18, <1>a, <2>1
       DEF ResumePut, LineageInv, Unmoved, InLineage, JobInLineage, Writing, Resuming
  <2>2. CASE ~(n = lease /\ Takes(snaps, ResumeKey(n), ResumeSnap(n)))
    BY Zenon, <1>18, <1>a, <2>2, EndsJobs DEF ResumePut, Fail, LineageInv
  <2> QED BY Zenon, <2>1, <2>2
<1>19. ASSUME NEW n \in Nodes, ResumePutFails(n) PROVE LineageInv' /\ Kept
  BY Zenon, <1>19, SpendKeepsRun, EndsJobs DEF ResumePutFails, Fail, LineageInv
<1>20. ASSUME NEW n \in Nodes, job[n] # None, job[n].pc = "resume_save"
       PROVE  ResumeState(n) # None /\ stateJson # None /\ ResumeState(n).lin = stateJson.lin
  <2>1. stateJson # None /\ job[n].lin = stateJson.lin
    BY Zenon, <1>20 DEF LineageInv, JobInLineage, Resuming
  <2> QED BY Zenon, <2>1 DEF ResumeState, State, NoneIsNoState
<1>21. ASSUME NEW n \in Nodes, ResumeSave(n) PROVE LineageInv' /\ Kept
  <2>1. CASE n = lease
    BY <1>21, <1>20, <1>a, <2>1
       DEF ResumeSave, Fail, LineageInv, Unmoved, InLineage, JobInLineage
  <2>2. CASE n # lease
    BY Zenon, <1>21, <1>a, <2>2, EndsJobs DEF ResumeSave, Fail, LineageInv
  <2> QED BY Zenon, <2>1, <2>2
<1>22. ASSUME NEW n \in Nodes, ResumeSaveFails(n) PROVE LineageInv' /\ Kept
  <2>1. Unmoved /\ stateJson # None /\ stateJson' # None /\ stateJson'.lin = stateJson.lin
    BY Zenon, <1>22, <1>20, SpendKeepsRun DEF ResumeSaveFails
  <2> QED BY Zenon, <1>22, <2>1 DEF ResumeSaveFails, Fail, LineageInv, Unmoved, InLineage, JobInLineage
<1>23. ASSUME NEW f \in Followers,
              Follow(f) \/ PullStart(f) \/ PullApply(f) \/ PullFinish(f) \/ PullCut(f)
       PROVE  LineageInv' /\ Kept
  <2>1. Unmoved /\ UNCHANGED <<st, stateJson, job>>
    BY Zenon, <1>23, <1>a, SpendKeepsRun DEF Follow, PullStart, PullApply, PullFinish, PullCut
  <2> QED BY Zenon, <2>1, EndsJobs DEF LineageInv
<1> QED
  BY <1>0, <1>1, <1>2, <1>3, <1>4, <1>5, <1>6, <1>7, <1>8, <1>9, <1>10, <1>11, <1>12, <1>13, <1>14,
     <1>15, <1>16, <1>17, <1>18, <1>19, <1>21, <1>22, <1>23 DEF Next, Publish

\* However many nodes found, restore and resume the stream at once, every database
\* that is registered publishes into the lineage of state.json (Replicator::add,
\* save_initial_state, resume_owned_after_restore).
THEOREM AllInOneLineage == ASSUME NoRun, NoneIsNoState PROVE Spec => []OneLineage
<1>1. Init => LineageInv
  BY Zenon, InitLineage
<1>2. LineageInv /\ [Next]_vars => LineageInv'
  BY Zenon, StepLineage
<1>3. LineageInv => OneLineage
  BY Zenon DEF LineageInv, InLineage, OneLineage
<1> QED BY <1>1, <1>2, <1>3, PTL DEF Spec

\* A stream keeps the lineage it was founded with: no save_state, save_initial_state
\* or resume of any node, retried or not, replaces it, so that nothing that was
\* published is cut off from a restore that way.
THEOREM LineageStays ==
  ASSUME NoRun, NoneIsNoState
  PROVE  Spec => [][stateJson # None => stateJson' # None /\ stateJson'.lin = stateJson.lin]_vars
<1>1. Init => LineageInv
  BY Zenon, InitLineage
<1>2. LineageInv /\ [Next]_vars => LineageInv'
  BY Zenon, StepLineage
<1>3. LineageInv /\ [Next]_vars =>
        [stateJson # None => stateJson' # None /\ stateJson'.lin = stateJson.lin]_vars
  BY Zenon, StepLineage
<1> QED BY <1>1, <1>2, <1>3, PTL DEF Spec

=============================================================================
