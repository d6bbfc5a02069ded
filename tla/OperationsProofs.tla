----------------------------- MODULE OperationsProofs -----------------------------
(* Proofs about MCOperations: what its run checks of publishing, of repositories and   *)
(* of migrations, for any targets, builds, keys, files and invocations.                *)
EXTENDS MCOperations, FiniteSetTheorems, TLAPS

-----------------------------------------------------------------------------------
(* karbon deploy publish. What the target at hand gets.                                *)

Published == [build |-> publish.build, installed |-> publish.at \notin swallowed]

(* The publish at hand has reached the targets up to one, whose tree and process it has *)
(* brought as far as its stage says; those behind it are done.                          *)

Rolling ==
    publish # Publishing!NotPublishing =>
        /\ publish.at \in touched /\ \A h \in touched : h <= publish.at
        /\ latest = publish.build
        /\ publish.stage # "sync" => tree[publish.at] = Published
        /\ publish.stage = "health" => process[publish.at].tree = Published
        /\ publish.stage = "sync" => publish.at \notin swallowed
        /\ \A h \in swallowed : h <= publish.at

PublishInv == /\ Publishing!TypeOK
              /\ Rolling
              /\ Publishing!OneTargetDown
              /\ Publishing!DoneRunTheBuild

(* A publish has not begun on any target.                                              *)
LEMMA PublishStarts == MCInit => PublishInv
BY InstanceAssumptions
   DEF MCInit, PublishInv, Rolling, Publishing!Init, Publishing!TypeOK, Publishing!OneTargetDown,
       Publishing!DoneRunTheBuild, Publishing!Done, Publishing!Tree, Publishing!Empty, Publishing!Status

(* What is under way is a publish of one build, at one target, in one of four stages.  *)
LEMMA UnderWay ==
    ASSUME PublishInv, publish # Publishing!NotPublishing
    PROVE  /\ publish \in [stage : {"sync", "stop", "start", "health"}, build : Builds,
                           at : Publishing!Hosts]
           /\ publish.at \in Publishing!Hosts /\ publish.at \in Nat
           /\ publish.build \in Builds /\ Targets \in Nat
BY InstanceAssumptions
   DEF PublishInv, Publishing!TypeOK, Publishing!Hosts, Publishing!PublishAssumption

(* All targets reached but the last are behind another one, the next target or none.   *)
LEMMA BehindTheLast ==
    ASSUME NEW T \in SUBSET Nat, NEW at \in T, \A h \in T : h <= at
    PROVE  /\ {h \in T : \E g \in T : h < g} = T \ {at}
           /\ {h \in T \union {at + 1} : \E g \in T \union {at + 1} : h < g} = T
           /\ \A h \in T \union {at + 1} : h <= at + 1
<1>1. at \in Nat /\ \A h \in T : h \in Nat
    OBVIOUS
<1>2. \A h \in T : h # at => h < at
    BY <1>1
<1>3. \A g \in T : ~(at < g)
    BY <1>1
<1>4. {h \in T : \E g \in T : h < g} = T \ {at}
    BY <1>2, <1>3
<1>5. \A h \in T : h < at + 1
    BY <1>1
<1>6. \A g \in T \union {at + 1} : g <= at + 1 /\ ~(at + 1 < g)
    BY <1>1
<1>7. {h \in T \union {at + 1} : \E g \in T \union {at + 1} : h < g} = T
    BY <1>5, <1>6
<1> QED  BY <1>4, <1>6, <1>7

(* The target at hand is done, and the publish goes on to the next or ends: nothing    *)
(* but the targets behind it changed, and they stay done.                              *)
LEMMA TargetIsDone ==
    ASSUME PublishInv, publish # Publishing!NotPublishing, Publishing!TargetDone,
           tree' = tree, latest' = latest, swallowed' = swallowed,
           tree[publish.at] = Published,
           process' \in [Publishing!Hosts -> [tree : Publishing!Tree, status : Publishing!Status]],
           \A h \in Publishing!Hosts \ {publish.at} : process'[h] = process[h],
           process'[publish.at].tree = tree[publish.at],
           HealthUrl => process'[publish.at].status \notin {"down", "starting"}
    PROVE  PublishInv'
<1>1. /\ publish.at \in Publishing!Hosts /\ publish.at \in Nat
      /\ publish.build \in Builds /\ Targets \in Nat
      /\ Publishing!Hosts \subseteq Nat
    BY UnderWay DEF Publishing!Hosts
<1>2. touched \subseteq Publishing!Hosts /\ publish.at \in touched
      /\ \A h \in touched : h <= publish.at
    BY DEF PublishInv, Publishing!TypeOK, Rolling
<1>3. latest = publish.build
    BY DEF PublishInv, Rolling
<1>4. \/ /\ publish' = Publishing!NotPublishing /\ touched' = touched
      \/ /\ publish' = [stage |-> "sync", build |-> publish.build, at |-> publish.at + 1]
         /\ touched' = touched \union {publish.at + 1} /\ publish.at + 1 \in Publishing!Hosts
    BY <1>1 DEF Publishing!TargetDone, Publishing!Target, Publishing!Hosts
<1>5. Publishing!Done = touched \ {publish.at}
    BY <1>1, <1>2, BehindTheLast DEF Publishing!Done
<1>6. Publishing!Done' \subseteq touched
    <2>1. CASE touched' = touched
        BY <2>1 DEF Publishing!Done
    <2>2. CASE touched' = touched \union {publish.at + 1}
        BY <1>1, <1>2, <2>2, BehindTheLast DEF Publishing!Done
    <2> QED  BY <1>4, <2>1, <2>2
<1>7. Publishing!TypeOK'
    <2>1. touched' \subseteq Publishing!Hosts
        BY <1>2, <1>4
    <2>2. publish' \in {Publishing!NotPublishing} \union
              [stage : {"sync", "stop", "start", "health"}, build : Builds, at : Publishing!Hosts]
        BY <1>1, <1>4
    <2> QED  BY <2>1, <2>2 DEF PublishInv, Publishing!TypeOK
<1>8. Rolling'
    <2>0. swallowed \subseteq Publishing!Hosts /\ \A h \in swallowed : h <= publish.at
        BY DEF PublishInv, Publishing!TypeOK, Rolling
    <2>1. CASE publish' = Publishing!NotPublishing
        BY <2>1 DEF Rolling
    <2>2. CASE /\ publish' = [stage |-> "sync", build |-> publish.build, at |-> publish.at + 1]
               /\ touched' = touched \union {publish.at + 1}
        <3>1. \A h \in touched' : h <= publish.at + 1
            BY <1>1, <1>2, <2>2, BehindTheLast
        <3>2. /\ swallowed' = swallowed /\ publish.at + 1 \notin swallowed
              /\ \A h \in swallowed : h <= publish.at + 1
            BY <1>1, <2>0
        <3> QED  BY <1>3, <2>2, <3>1, <3>2 DEF Rolling
    <2> QED  BY <1>4, <2>1, <2>2
<1>9. Publishing!OneTargetDown'
    BY <1>2, <1>5, <1>6 DEF PublishInv, Publishing!OneTargetDown
<1>10. Publishing!DoneRunTheBuild'
    BY <1>2, <1>3, <1>5, <1>6 DEF PublishInv, Publishing!DoneRunTheBuild, Published
<1> QED  BY <1>7, <1>8, <1>9, <1>10 DEF PublishInv

(* Every command of a publish and every move of a process keeps it.                    *)
LEMMA PublishKeeps ==
    ASSUME PublishInv, Publishing!Next
    PROVE  PublishInv'
<1>0. /\ Targets \in Nat \ {0} /\ 1 \in Publishing!Hosts /\ Publishing!Hosts \subseteq Nat
      /\ Publishing!TypeOK
    BY InstanceAssumptions DEF Publishing!Hosts, Publishing!PublishAssumption, PublishInv
<1>1. ASSUME NEW b \in Builds, Publishing!Publish(b) PROVE PublishInv'
    <2>1. /\ publish' = [stage |-> "sync", build |-> b, at |-> 1] /\ touched' = {1}
          /\ latest' = b /\ tree' = tree /\ process' = process /\ swallowed' = {}
        BY <1>1 DEF Publishing!Publish, Publishing!Target
    <2>2. Publishing!Done' = {}
        BY <2>1 DEF Publishing!Done
    <2>3. Publishing!TypeOK'
        BY <1>0, <2>1 DEF Publishing!TypeOK
    <2> QED  BY <1>0, <2>1, <2>2, <2>3 DEF PublishInv, Rolling, Publishing!OneTargetDown,
                                          Publishing!DoneRunTheBuild
<1>2. ASSUME Publishing!Sync PROVE PublishInv'
    <2>1. /\ publish # Publishing!NotPublishing /\ publish.stage = "sync"
          /\ publish' = [publish EXCEPT !.stage = "stop"]
          /\ process' = process /\ touched' = touched /\ latest' = latest
          /\ publish.at \notin swallowed
        BY <1>2 DEF Publishing!Sync, Publishing!In, Publishing!Stage, Publishing!NotPublishing,
                  PublishInv, Rolling
    <2>2. /\ publish.at \in Publishing!Hosts /\ publish.build \in Builds
          /\ publish \in [stage : {"sync", "stop", "start", "health"}, build : Builds,
                          at : Publishing!Hosts]
        BY <2>1, UnderWay
    <2>3. Publishing!Done' = Publishing!Done /\ publish.at \notin Publishing!Done
          /\ Publishing!Done \subseteq Publishing!Hosts
        BY <1>0, <2>1, <2>2 DEF Publishing!Done, PublishInv, Rolling, Publishing!TypeOK
    <2>4. PICK installed \in BOOLEAN :
              /\ tree' = [tree EXCEPT ![publish.at] =
                              [build |-> publish.build, installed |-> installed]]
              /\ swallowed' = IF installed THEN swallowed ELSE swallowed \union {publish.at}
        BY <1>2 DEF Publishing!Sync
    <2>5. /\ Publishing!TypeOK'
          /\ \A h \in Publishing!Hosts \ {publish.at} :
                 tree'[h] = tree[h] /\ (h \in swallowed' <=> h \in swallowed)
          /\ tree'[publish.at] = [build |-> publish.build, installed |-> installed]
          /\ installed <=> publish.at \notin swallowed'
          /\ \A h \in swallowed' : h = publish.at \/ h \in swallowed
        BY <1>0, <2>1, <2>2, <2>4 DEF Publishing!TypeOK, Publishing!Tree
    <2>6. Rolling'
        <3>1. tree'[publish.at] = Published'
            BY <2>1, <2>2, <2>5 DEF Published
        <3>2. \A h \in swallowed' : h <= publish.at
            BY <1>0, <2>1, <2>2, <2>5 DEF Rolling, PublishInv
        <3> QED  BY <2>1, <2>2, <3>1, <3>2 DEF Rolling, PublishInv, Publishing!NotPublishing
    <2>7. Publishing!OneTargetDown' /\ Publishing!DoneRunTheBuild'
        BY <2>1, <2>3, <2>5 DEF PublishInv, Publishing!OneTargetDown, Publishing!DoneRunTheBuild
    <2> QED  BY <2>5, <2>6, <2>7 DEF PublishInv
<1>3. ASSUME Publishing!StopProcess PROVE PublishInv'
    <2>1. /\ publish # Publishing!NotPublishing /\ publish.stage = "stop"
          /\ publish' = [publish EXCEPT !.stage = "start"]
          /\ process' = [process EXCEPT ![publish.at].status = "down"]
          /\ tree' = tree /\ touched' = touched /\ latest' = latest /\ swallowed' = swallowed
        BY <1>3 DEF Publishing!StopProcess, Publishing!In, Publishing!Stage, Publishing!NotPublishing
    <2>2. /\ publish.at \in Publishing!Hosts
          /\ publish \in [stage : {"sync", "stop", "start", "health"}, build : Builds,
                          at : Publishing!Hosts]
        BY <2>1, UnderWay
    <2>3. Publishing!Done' = Publishing!Done /\ publish.at \notin Publishing!Done
          /\ Publishing!Done \subseteq Publishing!Hosts
        BY <1>0, <2>1, <2>2 DEF Publishing!Done, PublishInv, Rolling, Publishing!TypeOK
    <2>4. Publishing!TypeOK'
        BY <1>0, <2>1, <2>2 DEF Publishing!TypeOK, Publishing!Status
    <2>5. \A h \in Publishing!Hosts \ {publish.at} : process'[h] = process[h]
        BY <1>0, <2>1, <2>2 DEF Publishing!TypeOK
    <2>6. Rolling'
        BY <2>1, <2>2 DEF Rolling, PublishInv, Publishing!NotPublishing, Published
    <2>7. Publishing!OneTargetDown' /\ Publishing!DoneRunTheBuild'
        BY <2>1, <2>3, <2>5 DEF PublishInv, Publishing!OneTargetDown, Publishing!DoneRunTheBuild
    <2> QED  BY <2>4, <2>6, <2>7 DEF PublishInv
<1>4. ASSUME Publishing!Start PROVE PublishInv'
    <2>1. /\ publish # Publishing!NotPublishing /\ publish.stage = "start"
          /\ process' = Publishing!Restarted /\ tree' = tree /\ latest' = latest
          /\ swallowed' = swallowed
        BY <1>4 DEF Publishing!Start, Publishing!In, Publishing!NotPublishing
    <2>2. /\ publish.at \in Publishing!Hosts
          /\ publish \in [stage : {"sync", "stop", "start", "health"}, build : Builds,
                          at : Publishing!Hosts]
          /\ tree[publish.at] = Published
        BY <2>1, UnderWay DEF PublishInv, Rolling
    <2>3. /\ process' \in [Publishing!Hosts -> [tree : Publishing!Tree, status : Publishing!Status]]
          /\ \A h \in Publishing!Hosts \ {publish.at} : process'[h] = process[h]
          /\ process'[publish.at].tree = tree[publish.at]
        BY <1>0, <2>1, <2>2 DEF Publishing!TypeOK, Publishing!Restarted, Publishing!Status
    <2>4. CASE ~HealthUrl
        <3>1. Publishing!TargetDone
            BY <1>4, <2>4 DEF Publishing!Start
        <3> QED  BY <2>1, <2>2, <2>3, <2>4, <3>1, TargetIsDone
    <2>5. CASE HealthUrl
        <3>1. publish' = [publish EXCEPT !.stage = "health"] /\ touched' = touched
            BY <1>4, <2>5 DEF Publishing!Start, Publishing!Stage
        <3>2. Publishing!Done' = Publishing!Done /\ publish.at \notin Publishing!Done
              /\ Publishing!Done \subseteq Publishing!Hosts
            BY <1>0, <2>1, <2>2, <3>1 DEF Publishing!Done, PublishInv, Rolling, Publishing!TypeOK
        <3>3. Publishing!TypeOK'
            BY <1>0, <2>1, <2>2, <2>3, <3>1 DEF Publishing!TypeOK
        <3>4. Rolling'
            BY <2>1, <2>2, <2>3, <3>1 DEF Rolling, PublishInv, Publishing!NotPublishing, Published
        <3>5. Publishing!OneTargetDown' /\ Publishing!DoneRunTheBuild'
            BY <2>1, <2>3, <3>2 DEF PublishInv, Publishing!OneTargetDown,
                                    Publishing!DoneRunTheBuild
        <3> QED  BY <3>3, <3>4, <3>5 DEF PublishInv
    <2> QED  BY <2>4, <2>5
<1>5. ASSUME Publishing!Healthy PROVE PublishInv'
    <2>1. /\ publish # Publishing!NotPublishing /\ publish.stage = "health"
          /\ process[publish.at].status = "up" /\ Publishing!TargetDone
          /\ process' = process /\ tree' = tree /\ latest' = latest /\ swallowed' = swallowed
        BY <1>5 DEF Publishing!Healthy, Publishing!In, Publishing!NotPublishing
    <2>2. /\ tree[publish.at] = Published
          /\ process[publish.at].tree = tree[publish.at]
        BY <2>1 DEF PublishInv, Rolling
    <2> QED  BY <1>0, <2>1, <2>2, TargetIsDone DEF Publishing!TypeOK
<1>6. ASSUME Publishing!Fails PROVE PublishInv'
    <2>1. /\ publish' = Publishing!NotPublishing
          /\ process' = process /\ touched' = touched /\ latest' = latest /\ swallowed' = swallowed
          /\ \/ tree' = tree
             \/ /\ publish # Publishing!NotPublishing
                /\ tree' = [tree EXCEPT ![publish.at] = Publishing!Mixed]
        BY <1>6 DEF Publishing!Fails, Publishing!In, Publishing!NotPublishing
    <2>2. Publishing!Done' = Publishing!Done /\ Publishing!Done \subseteq Publishing!Hosts
        BY <1>0, <2>1 DEF Publishing!Done, Publishing!TypeOK
    <2>3. \A h \in Publishing!Done : tree'[h] = tree[h]
        <3>1. CASE tree' = tree
            BY <3>1
        <3>2. CASE tree' # tree
            <4>1. publish.at \in Publishing!Hosts /\ publish.at \notin Publishing!Done
                BY <1>0, <2>1, <3>2, UnderWay
                   DEF Publishing!Done, PublishInv, Rolling, Publishing!TypeOK
            <4> QED  BY <1>0, <2>1, <2>2, <3>2, <4>1 DEF Publishing!TypeOK
        <3> QED  BY <3>1, <3>2
    <2>4. Publishing!TypeOK'
        BY <1>0, <2>1 DEF Publishing!TypeOK, Publishing!Tree
    <2> QED  BY <2>1, <2>2, <2>3, <2>4 DEF PublishInv, Rolling, Publishing!OneTargetDown,
                                          Publishing!DoneRunTheBuild
<1>7. ASSUME NEW h \in Publishing!Hosts, Publishing!Answers(h) \/ Publishing!Respawns(h)
      PROVE  PublishInv'
    <2>1. /\ publish' = publish /\ tree' = tree /\ touched' = touched /\ latest' = latest
          /\ swallowed' = swallowed
          /\ process' \in [Publishing!Hosts -> [tree : Publishing!Tree, status : Publishing!Status]]
          /\ \A g \in Publishing!Hosts :
                 \/ process'[g] = process[g]
                 \/ process'[g].status \notin {"down", "starting"} /\ process'[g].tree = process[g].tree
                 \/ process'[g].status \notin {"down", "starting"} /\ process'[g].tree = tree[g]
        BY <1>0, <1>7 DEF Publishing!Answers, Publishing!Respawns, Publishing!TypeOK,
                          Publishing!Status
    <2>2. Publishing!Done' = Publishing!Done /\ Publishing!Done \subseteq Publishing!Hosts
        BY <1>0, <2>1 DEF Publishing!Done, Publishing!TypeOK
    <2>3. Publishing!TypeOK'
        BY <1>0, <2>1 DEF Publishing!TypeOK
    <2>4. Rolling'
        BY <2>1, UnderWay DEF PublishInv, Rolling, Published
    <2> QED  BY <2>1, <2>2, <2>3, <2>4 DEF PublishInv, Publishing!OneTargetDown,
                                          Publishing!DoneRunTheBuild
<1> QED  BY <1>1, <1>2, <1>3, <1>4, <1>5, <1>6, <1>7 DEF Publishing!Next

(* "The next target is never restarted while this one is still down" and "the targets   *)
(* already done run the new version", for any number of targets, wherever a publish     *)
(* stopped and whatever the processes did since.                                        *)
THEOREM PublishesRoll == MCSpec => []PublishRolls
<1>1. PublishInv /\ [MCNext]_<<part, vars, publishVars, devVars, writerVars>> => PublishInv'
    <2>1. ASSUME PublishInv, UNCHANGED publishVars PROVE PublishInv'
        BY <2>1 DEF publishVars, PublishInv, Rolling, Publishing!TypeOK, Publishing!OneTargetDown,
                    Publishing!DoneRunTheBuild, Publishing!Done, Published
    <2> QED  BY <2>1, PublishKeeps DEF MCNext
<1>2. PublishInv => PublishRolls
    BY DEF PublishInv, PublishRolls
<1> QED  BY <1>1, <1>2, PublishStarts, PTL DEF MCSpec

-----------------------------------------------------------------------------------
(* Repositories. The history of the rows that are not deleted is what deleted_at says of *)
(* each, and an entity without SOFT_DELETE has no row that is marked.                    *)

RepositoryInv ==
    /\ Repository!TypeOK
    /\ Repository!DeletedIsUnseen
    /\ u2 \in [soft : BOOLEAN, slug : BOOLEAN]
    /\ u3 = {id \in DOMAIN u1 : ~u1[id].deleted}
    /\ \A id \in DOMAIN u1 : u1[id].deleted => u2.soft

(* The table starts empty.                                                               *)
LEMMA RepositoryStarts == Repository!Init => RepositoryInv
<1> SUFFICES ASSUME Repository!Init PROVE RepositoryInv
    OBVIOUS
<1>1. DOMAIN u1 = {} /\ u3 = {} /\ u4.by = "none" /\ u2 \in [soft : BOOLEAN, slug : BOOLEAN]
    BY DEF Repository!Init, Repository!Silent, Repository!Read
<1> QED  BY <1>1 DEF RepositoryInv, Repository!TypeOK, Repository!DeletedIsUnseen

(* A WHERE with the filter asks for the rows that are meant: those of the history.       *)
LEMMA FilterIsMeant ==
    ASSUME RepositoryInv, NEW conds
    PROVE  Repository!Select(conds, Repository!soft_filter) = Repository!Meant(conds)
<1>1. \A id \in DOMAIN u1 : (u2.soft => ~u1[id].deleted) <=> id \in u3
    BY DEF RepositoryInv
<1> QED  BY <1>1 DEF RepositoryInv, Repository!Select, Repository!Meant, Repository!soft_filter,
                     Repository!TypeOK

(* What a method returns says nothing of the rows: only of what it was asked for.        *)
LEMMA ReadKeeps ==
    ASSUME RepositoryInv, NEW by, NEW conds, NEW ids, NEW answer,
           Repository!Returns(by, conds, ids, answer),
           \/ by = "refused"
           \/ by = "found" /\ ids = Repository!Meant(conds)
           \/ by = "exists" /\ answer = (Repository!Meant(conds) # {})
           \/ by = "count" /\ answer = Repository!Cardinality(u3)
           \/ /\ by = "one" /\ ids \subseteq Repository!Meant(conds)
              /\ ids = {} => Repository!Meant(conds) = {}
           \/ by = "trashed" /\ u3 \subseteq ids
           \/ /\ by = "grouped"
              /\ \A cond \in conds : \A owner \in cond.vals :
                     Repository!Meant({Repository!Condition("owner", {owner})}) =
                         IF owner \in DOMAIN answer THEN answer[owner] ELSE {}
    PROVE  RepositoryInv'
<1>1. u4' = [by |-> by, conds |-> conds, ids |-> ids, answer |-> answer]
      /\ UNCHANGED <<u1, u2, u3>>
    BY DEF Repository!Returns, Repository!Read
<1>2. \A cs : Repository!Meant(cs)' = Repository!Meant(cs)
    BY <1>1 DEF Repository!Meant, Repository!Holds
<1>3. Repository!TypeOK'
    BY <1>1 DEF RepositoryInv, Repository!TypeOK
<1>4. Repository!DeletedIsUnseen'
    BY <1>1, <1>2 DEF Repository!DeletedIsUnseen
<1> QED  BY <1>1, <1>3, <1>4 DEF RepositoryInv

(* After a write nothing is read yet.                                                    *)
LEMMA WriteKeeps ==
    ASSUME RepositoryInv, NEW table, NEW alive, Repository!Writes(table, alive),
           DOMAIN table \subseteq Ids,
           \A id \in DOMAIN table : table[id] \in [owner : Owners, deleted : BOOLEAN],
           alive = {id \in DOMAIN table : ~table[id].deleted},
           \A id \in DOMAIN table : table[id].deleted => u2.soft
    PROVE  RepositoryInv'
<1>1. u1' = table /\ u3' = alive /\ u2' = u2 /\ u4'.by = "none"
    BY DEF Repository!Writes, Repository!Silent, Repository!Read
<1> QED  BY <1>1 DEF RepositoryInv, Repository!TypeOK, Repository!DeletedIsUnseen
(* Rows loaded for several owners at once are, owner by owner, those each would load.    *)
LEMMA GroupsAreMeant ==
    ASSUME RepositoryInv, NEW owners \in SUBSET Owners, Repository!load_grouped_by(owners)
    PROVE  RepositoryInv'
<1> DEFINE conds == {Repository!Condition("owner", owners)}
<1>1. PICK found : found = IF owners = {} THEN {}
                           ELSE Repository!Select(conds, Repository!soft_filter)
    OBVIOUS
<1>2. PICK answer : answer = [owner \in {u1[id].owner : id \in found} |->
                                 {id \in found : u1[id].owner = owner}]
    OBVIOUS
<1>3. Repository!Returns("grouped", conds, found, answer)
    BY <1>1, <1>2 DEF Repository!load_grouped_by
<1>4. \A id : id \in found <=> id \in u3 /\ u1[id].owner \in owners
    <2>1. CASE owners = {}
        BY <1>1, <2>1
    <2>2. CASE owners # {}
        <3>1. found = Repository!Meant(conds)
            BY <1>1, <2>2, FilterIsMeant
        <3> QED  BY <3>1 DEF Repository!Meant, Repository!Holds, Repository!Condition
    <2> QED  BY <2>1, <2>2
<1>5. ASSUME NEW cond \in conds, NEW owner \in cond.vals
      PROVE  Repository!Meant({Repository!Condition("owner", {owner})}) =
                 IF owner \in DOMAIN answer THEN answer[owner] ELSE {}
    <2>1. owner \in owners
        BY <1>5 DEF Repository!Condition
    <2>2. Repository!Meant({Repository!Condition("owner", {owner})})
              = {id \in u3 : u1[id].owner = owner}
        BY DEF Repository!Meant, Repository!Holds, Repository!Condition
    <2>3. {id \in u3 : u1[id].owner = owner} = {id \in found : u1[id].owner = owner}
        BY <1>4, <2>1
    <2>4. owner \notin DOMAIN answer => {id \in found : u1[id].owner = owner} = {}
        BY <1>2
    <2>5. owner \in DOMAIN answer => answer[owner] = {id \in found : u1[id].owner = owner}
        BY <1>2
    <2> QED  BY <2>2, <2>3, <2>4, <2>5
<1> HIDE DEF conds
<1> QED  BY <1>3, <1>5, ReadKeeps

(* Every method of the repository keeps it.                                              *)
LEMMA RepositoryKeeps ==
    ASSUME RepositoryInv, Repository!Next
    PROVE  RepositoryInv'
<1>0. /\ u3 = {id \in DOMAIN u1 : ~u1[id].deleted} /\ DOMAIN u1 \subseteq Ids
      /\ \A id \in DOMAIN u1 : u1[id] \in [owner : Owners, deleted : BOOLEAN]
      /\ \A id \in DOMAIN u1 : u1[id].deleted => u2.soft
    BY DEF RepositoryInv, Repository!TypeOK
<1>1. Repository!Meant({}) = u3
    BY DEF Repository!Meant
<1>2. CASE Repository!count
    BY <1>1, <1>2, FilterIsMeant, ReadKeeps DEF Repository!count
<1>3. CASE Repository!find_all
    BY <1>3, FilterIsMeant, ReadKeeps DEF Repository!find_all
<1>4. CASE Repository!find_all_with_trashed
    <2>1. u3 \subseteq Repository!Select({}, FALSE)
        BY <1>0 DEF Repository!Select
    <2> QED  BY <1>4, <2>1, ReadKeeps DEF Repository!find_all_with_trashed
<1>5. CASE Repository!Refused
    BY <1>5, ReadKeeps DEF Repository!Refused
<1>6. ASSUME NEW id \in Ids,
             Repository!find_by_id(id) \/ Repository!find_by_slug(id) \/ Repository!exists(id)
      PROVE  RepositoryInv'
    <2>1. CASE Repository!find_by_id(id)
        BY <2>1, FilterIsMeant, ReadKeeps DEF Repository!find_by_id
    <2>2. CASE Repository!find_by_slug(id)
        BY <2>2, FilterIsMeant, ReadKeeps DEF Repository!find_by_slug, Repository!Refused
    <2>3. CASE Repository!exists(id)
        BY <2>3, FilterIsMeant, ReadKeeps DEF Repository!exists
    <2> QED  BY <1>6, <2>1, <2>2, <2>3
<1>7. ASSUME NEW conds, Repository!find_where(conds) PROVE RepositoryInv'
    <2>1. PICK found : found = Repository!Meant(conds)
        OBVIOUS
    <2>2. PICK ids \in IF found = {} THEN {{}} ELSE {{id} : id \in found} :
              Repository!Returns("one", conds, ids, 0)
        BY <1>7, <2>1, FilterIsMeant DEF Repository!find_where
    <2>3. ids \subseteq found /\ (ids = {} => found = {})
        BY <2>2
    <2> QED  BY <2>1, <2>2, <2>3, ReadKeeps
<1>8. ASSUME NEW conds, Repository!find_all_where(conds) PROVE RepositoryInv'
    BY <1>8, FilterIsMeant, ReadKeeps DEF Repository!find_all_where
<1>9. ASSUME NEW id \in Ids, NEW owner \in Owners, Repository!Insert(id, owner)
      PROVE  RepositoryInv'
    <2>1. PICK table : table = [i \in DOMAIN u1 \union {id} |->
                                   IF i = id THEN [owner |-> owner, deleted |-> FALSE] ELSE u1[i]]
        OBVIOUS
    <2>2. id \notin DOMAIN u1 /\ Repository!Writes(table, u3 \union {id})
        BY <1>9, <2>1 DEF Repository!Insert
    <2>3. /\ DOMAIN table = DOMAIN u1 \union {id}
          /\ table[id] = [owner |-> owner, deleted |-> FALSE]
          /\ \A i \in DOMAIN u1 : table[i] = u1[i]
        BY <2>1, <2>2
    <2>4. u3 \union {id} = {i \in DOMAIN table : ~table[i].deleted}
        BY <1>0, <2>2, <2>3
    <2>5. \A i \in DOMAIN table : /\ table[i] \in [owner : Owners, deleted : BOOLEAN]
                                  /\ table[i].deleted => u2.soft
        <3>1. /\ table[id] \in [owner : Owners, deleted : BOOLEAN]
              /\ table[id].deleted => u2.soft
            BY <2>3
        <3>2. ASSUME NEW i \in DOMAIN u1
              PROVE  /\ table[i] \in [owner : Owners, deleted : BOOLEAN]
                     /\ table[i].deleted => u2.soft
            BY <1>0, <2>3
        <3> QED  BY <2>3, <3>1, <3>2
    <2> QED  BY <1>0, <2>2, <2>3, <2>4, <2>5, WriteKeeps
<1>10. ASSUME NEW id \in Ids, Repository!Writes(Repository!Without(id), u3 \ {id})
       PROVE  RepositoryInv'
    <2>1. PICK table : table = Repository!Without(id)
        OBVIOUS
    <2>2. DOMAIN table = DOMAIN u1 \ {id} /\ \A i \in DOMAIN table : table[i] = u1[i]
        BY <2>1 DEF Repository!Without
    <2>3. u3 \ {id} = {i \in DOMAIN table : ~table[i].deleted}
        BY <1>0, <2>2
    <2> QED  BY <1>0, <1>10, <2>1, <2>2, <2>3, WriteKeeps
<1>11. ASSUME NEW id \in Ids, NEW deleted \in BOOLEAN, u2.soft, NEW alive,
              Repository!Writes(Repository!Marked(id, deleted), alive),
              alive = IF deleted THEN u3 \ {id} ELSE u3 \union ({id} \intersect DOMAIN u1)
       PROVE  RepositoryInv'
    <2>1. PICK table : table = Repository!Marked(id, deleted)
        OBVIOUS
    <2>2. /\ DOMAIN table = DOMAIN u1
          /\ \A i \in DOMAIN table :
                 table[i] = [owner |-> u1[i].owner,
                             deleted |-> IF i = id THEN deleted ELSE u1[i].deleted]
        BY <2>1 DEF Repository!Marked
    <2>3. alive = {i \in DOMAIN table : ~table[i].deleted}
        BY <1>0, <1>11, <2>2
    <2>4. \A i \in DOMAIN table : table[i] \in [owner : Owners, deleted : BOOLEAN]
        BY <1>0, <2>2
    <2> QED  BY <1>0, <1>11, <2>1, <2>2, <2>3, <2>4, WriteKeeps
<1>12. ASSUME NEW id \in Ids, Repository!delete(id) \/ Repository!force_delete(id)
                                                    \/ Repository!restore(id)
       PROVE  RepositoryInv'
    <2>1. CASE Repository!delete(id)
        BY <1>10, <1>11, <2>1 DEF Repository!delete
    <2>2. CASE Repository!force_delete(id)
        BY <1>10, <2>2 DEF Repository!force_delete
    <2>3. CASE Repository!restore(id)
        BY <1>5, <1>11, <2>3 DEF Repository!restore
    <2> QED  BY <1>12, <2>1, <2>2, <2>3
<1>13. ASSUME NEW owner, Repository!has_many(owner) PROVE RepositoryInv'
    BY <1>8, <1>13 DEF Repository!has_many
<1> QED  BY <1>2, <1>3, <1>4, <1>5, <1>6, <1>7, <1>8, <1>9, <1>12, <1>13, GroupsAreMeant
         DEF Repository!Next

(* No reading method gives a deleted row and none leaves another one out, for any keys,  *)
(* owners and sequence of insertions, deletions and restorations.                        *)
THEOREM DeletedStaysUnseen == MCSpec => []DeletedIsUnseen
<1> DEFINE Inv == part = "repository" => RepositoryInv
<1>1. MCInit => Inv
    BY RepositoryStarts DEF MCInit
<1>2. Inv /\ [MCNext]_<<part, vars, publishVars, devVars, writerVars>> => Inv'
    <2>1. ASSUME RepositoryInv, UNCHANGED writerVars PROVE RepositoryInv'
        <3>1. \A cs : Repository!Meant(cs)' = Repository!Meant(cs)
            BY <2>1 DEF writerVars, Repository!Meant, Repository!Holds
        <3>2. Repository!TypeOK' /\ Repository!DeletedIsUnseen'
            BY <2>1, <3>1 DEF writerVars, RepositoryInv, Repository!TypeOK,
                              Repository!DeletedIsUnseen
        <3> QED  BY <2>1, <3>2 DEF writerVars, RepositoryInv
    <2> QED  BY <2>1, RepositoryKeeps DEF MCNext
<1>3. Inv => DeletedIsUnseen
    BY DEF RepositoryInv, DeletedIsUnseen
<1> HIDE DEF Inv
<1> QED  BY <1>1, <1>2, <1>3, PTL DEF MCSpec

-----------------------------------------------------------------------------------
(* karbon migrate. What a session has at hand, and how far it is with it.                *)

Midway == {"read", "execute", "record", "forget"}

Counted ==
    \A s \in Sessions :
        /\ session[s].pc \in {"select", "read"} => session[s].k = 1
        /\ session[s].pc = "execute" =>
               /\ session[s].k \in 1 .. Up[At(s)]
               /\ Script(s) = Up[At(s)]
        /\ session[s].pc \in {"record", "forget"} => session[s].k = Up[At(s)] + 1
        /\ session[s].pc = "record" => Cmd(s) = "up" /\ Up[At(s)] > 0
        /\ session[s].pc = "forget" => Cmd(s) = "rollback"

(* Sessions run at the same time after an overlap only, and before one was mixed only    *)
(* those that go up.                                                                     *)
Apart ==
    \A s, t \in Sessions :
        Running(s) /\ Running(t) /\ s # t =>
            /\ "overlap" \in trouble
            /\ "mixed" \in trouble \/ (Cmd(s) = "up" /\ Cmd(t) = "up")

Upwards(s) == session[s].pc \in Midway /\ Cmd(s) = "up"

Downwards(s) == session[s].pc \in Midway /\ Cmd(s) = "rollback"

(* What a session that goes up has put behind it is recorded, and what it has executed   *)
(* of the file at hand is in effect.                                                     *)
BehindIsRecorded ==
    "mixed" \notin trouble =>
        \A s \in Sessions : Upwards(s) =>
            /\ \A u \in session[s].files \ session[s].todo : Up[u] > 0 => u \in recorded
            /\ \A j \in 1 .. Up[At(s)] : j < session[s].k => <<At(s), j>> \in schema

(* A rollback is about a version that is recorded, and in effect unless one stopped in   *)
(* the middle of it, as long as it has undone nothing of it.                             *)
UndoesRecorded ==
    "mixed" \notin trouble =>
        \A s \in Sessions : Downwards(s) =>
            /\ At(s) \in recorded
            /\ session[s].k = 1 /\ At(s) \notin half => Applied(At(s))

(* With one session at a time that is let finish, what is in effect is recorded, but for *)
(* what the session has executed, or cannot record, and what it has undone is gone.      *)
Exact ==
    trouble = {} =>
        /\ \A s \in Sessions :
               /\ Upwards(s) => session[s].todo \intersect recorded = {}
               /\ Downwards(s) => \A j \in 1 .. Up[At(s)] :
                      j + session[s].k > Up[At(s)] + 1 => <<At(s), j>> \notin schema
        /\ \A v \in Versions \ (Unsafe \union recorded) : \A j \in 1 .. Up[v] :
               <<v, j>> \in schema =>
                   \E s \in Sessions : Upwards(s) /\ At(s) = v /\ j < session[s].k

MigrateInv == /\ TypeOK
              /\ Counted
              /\ Apart
              /\ BehindIsRecorded
              /\ UndoesRecorded
              /\ Exact
              /\ RecordedIsApplied
(* A finite set of numbers that is not empty has a least and a greatest one.             *)
LEMMA ExtremesExist ==
    ASSUME NEW S \in SUBSET Nat, IsFiniteSet(S), S # {}
    PROVE  /\ Least(S) \in S /\ \A u \in S : Least(S) <= u
           /\ Greatest(S) \in S
<1> DEFINE R == StrictSubsetOrdering(S)
<1>1. IsWellFoundedOn(R, SUBSET S)
    BY FS_StrictSubsetOrderingWellFounded, FS_FiniteSubsetsOfFinite
<1>2. \E v \in S : \A u \in S : v <= u
    <2> DEFINE Without == {A \in SUBSET S : A # {} /\ ~ \E v \in A : \A u \in A : v <= u}
    <2>1. SUFFICES ASSUME Without # {} PROVE FALSE
        OBVIOUS
    <2>2. PICK A \in Without : \A B \in Without : <<B, A>> \notin R
        BY <1>1, <2>1, WFMin
    <2>3. PICK x \in A : x \in Nat
        OBVIOUS
    <2> DEFINE B == {y \in A : y < x}
    <2>4. B \in SUBSET S /\ B # {} /\ <<B, A>> \in R
        <3>1. B # {}
            BY <2>2, <2>3
        <3>2. B \subseteq A /\ B # A /\ A \in SUBSET S
            BY <2>2, <2>3
        <3> QED  BY <3>1, <3>2 DEF StrictSubsetOrdering
    <2>5. PICK v \in B : \A u \in B : v <= u
        BY <2>2, <2>4
    <2>6. \A u \in A : v <= u
        BY <2>3, <2>5
    <2> QED  BY <2>5, <2>6
<1>3. \E v \in S : \A u \in S : u <= v
    <2> DEFINE Without == {A \in SUBSET S : A # {} /\ ~ \E v \in A : \A u \in A : u <= v}
    <2>1. SUFFICES ASSUME Without # {} PROVE FALSE
        OBVIOUS
    <2>2. PICK A \in Without : \A B \in Without : <<B, A>> \notin R
        BY <1>1, <2>1, WFMin
    <2>3. PICK x \in A : x \in Nat
        OBVIOUS
    <2> DEFINE B == {y \in A : x < y}
    <2>4. B \in SUBSET S /\ B # {} /\ <<B, A>> \in R
        <3>1. B # {}
            BY <2>2, <2>3
        <3>2. B \subseteq A /\ B # A /\ A \in SUBSET S
            BY <2>2, <2>3
        <3> QED  BY <3>1, <3>2 DEF StrictSubsetOrdering
    <2>5. PICK v \in B : \A u \in B : u <= v
        BY <2>2, <2>4
    <2>6. \A u \in A : u <= v
        BY <2>3, <2>5
    <2> QED  BY <2>5, <2>6
<1> QED  BY <1>2, <1>3 DEF Least, Greatest

(* The file at hand is a version of the list.                                            *)
LEMMA AtHand ==
    ASSUME TypeOK, NEW s \in Sessions, session[s].pc \in Midway
    PROVE  /\ session[s] \in [pc : {"select", "read", "execute", "record", "forget"},
                              cmd : {"up", "rollback"}, files : SUBSET Versions,
                              todo : SUBSET Versions, k : Nat]
           /\ At(s) \in session[s].todo /\ At(s) \in Versions /\ At(s) \in Nat
           /\ \A u \in session[s].todo : At(s) <= u
           /\ Up[At(s)] \in Nat /\ session[s].k \in Nat
<1>1. session[s] \in [pc : {"select", "read", "execute", "record", "forget"},
                     cmd : {"up", "rollback"}, files : SUBSET Versions,
                     todo : SUBSET Versions, k : Nat]
    BY DEF TypeOK, Session, Idle, Midway
<1>2. session[s].todo # {} /\ session[s].todo \subseteq Versions
    BY <1>1 DEF TypeOK, Midway
<1>3. session[s].todo \subseteq Nat /\ IsFiniteSet(session[s].todo)
    BY <1>2, MigrationAssumption, FS_Subset
<1>4. At(s) \in session[s].todo /\ \A u \in session[s].todo : At(s) <= u
    BY <1>2, <1>3, ExtremesExist DEF At
<1> QED  BY <1>1, <1>2, <1>3, <1>4, MigrationAssumption
(* Nothing is at hand before a session begins.                                           *)
LEMMA MigrateStarts == MCInit => MigrateInv
<1> SUFFICES ASSUME Init PROVE MigrateInv
    BY DEF MCInit
<1>1. TypeOK
    BY MigrationAssumption DEF Init, TypeOK, Session, Idle
<1>2. \A s \in Sessions : session[s].pc = "idle"
    BY DEF Init, Idle
<1> QED  BY <1>1, <1>2 DEF Init, MigrateInv, Counted, Apart, Running, BehindIsRecorded, Upwards,
                          UndoesRecorded, Downwards, Exact, RecordedIsApplied, Midway

(* A step of one session leaves what the others have at hand.                            *)
LEMMA OthersStay ==
    ASSUME TypeOK, NEW s \in Sessions, NEW new, session' = [session EXCEPT ![s] = new]
    PROVE  /\ session'[s] = new
           /\ \A t \in Sessions \ {s} :
                  /\ session'[t] = session[t] /\ At(t)' = At(t) /\ Script(t)' = Script(t)
                  /\ Running(t)' = Running(t) /\ Cmd(t)' = Cmd(t)
                  /\ Upwards(t)' = Upwards(t) /\ Downwards(t)' = Downwards(t)
                  /\ Undoing(t)' = Undoing(t)
BY DEF TypeOK, At, Script, Running, Cmd, Upwards, Downwards, Undoing

(* A session that stops leaves the invariant, when it says of a rollback that it is half *)
(* done, and leaves no statement in effect that nobody records, unless it broke off.     *)
LEMMA StopKeeps ==
    ASSUME MigrateInv, NEW s \in Sessions, Stop(s), UNCHANGED <<dir, schema, recorded>>,
           trouble \subseteq trouble', trouble' \subseteq {"overlap", "mixed", "fault"},
           IF Running(s) /\ Cmd(s) = "rollback" /\ session[s].k > 1
           THEN half' = half \union {At(s)} ELSE half' = half,
           trouble' = {} /\ Upwards(s) /\ At(s) \notin Unsafe \union recorded =>
               \A j \in 1 .. Up[At(s)] : j < session[s].k => <<At(s), j>> \notin schema
    PROVE  MigrateInv'
<1>1. /\ TypeOK /\ Counted /\ Apart /\ BehindIsRecorded /\ UndoesRecorded /\ Exact
      /\ RecordedIsApplied
    BY DEF MigrateInv
<1>2. /\ session'[s] = Idle
      /\ \A t \in Sessions \ {s} :
             /\ session'[t] = session[t] /\ At(t)' = At(t) /\ Script(t)' = Script(t)
             /\ Running(t)' = Running(t) /\ Cmd(t)' = Cmd(t)
             /\ Upwards(t)' = Upwards(t) /\ Downwards(t)' = Downwards(t)
             /\ Undoing(t)' = Undoing(t)
    BY <1>1, OthersStay DEF Stop
<1>3. /\ session'[s].pc = "idle" /\ ~Running(s)' /\ ~Upwards(s)' /\ ~Downwards(s)'
      /\ Undoing(s)' = {}
    BY <1>2 DEF Idle, Running, Upwards, Downwards, Undoing, Midway
<1>4. half \subseteq half' /\ half' \subseteq Versions
    <2>1. Running(s) /\ Cmd(s) = "rollback" /\ session[s].k > 1 => session[s].pc \in Midway
        BY <1>1 DEF Counted, Midway, Running, TypeOK, Session, Idle
    <2> QED  BY <1>1, <2>1, AtHand DEF TypeOK
<1>5. TypeOK'
    <2>1. session' \in [Sessions -> Session]
        BY <1>1 DEF TypeOK, Stop, Session
    <2> QED  BY <1>1, <1>2, <1>3, <1>4, <2>1 DEF TypeOK
<1>6. Counted'
    BY <1>1, <1>2, <1>3 DEF Counted
<1>7. Apart'
    BY <1>1, <1>2, <1>3 DEF Apart
<1>8. BehindIsRecorded'
    BY <1>1, <1>2, <1>3 DEF BehindIsRecorded
<1>9. UndoesRecorded'
    BY <1>1, <1>2, <1>3, <1>4 DEF UndoesRecorded, Applied
<1>10. Exact'
    <2> SUFFICES ASSUME trouble' = {} PROVE Exact'
        BY DEF Exact
    <2>1. trouble = {}
        OBVIOUS
    <2>2. ASSUME NEW v \in Versions \ (Unsafe \union recorded), NEW j \in 1 .. Up[v],
                 <<v, j>> \in schema
          PROVE  \E t \in Sessions \ {s} : Upwards(t) /\ At(t) = v /\ j < session[t].k
        BY <1>1, <2>1, <2>2 DEF Exact
    <2> QED  BY <1>1, <1>2, <1>3, <2>1, <2>2 DEF Exact
<1>11. RecordedIsApplied'
    <2> SUFFICES ASSUME "mixed" \notin trouble',
                        NEW v \in recorded \ (half' \union UNION {Undoing(t)' : t \in Sessions})
                 PROVE  Applied(v)
        BY DEF RecordedIsApplied, Applied
    <2>1. "mixed" \notin trouble /\ v \notin half
        BY <1>4
    <2>2. \A t \in Sessions \ {s} : v \notin Undoing(t)
        BY <1>2
    <2>3. CASE v \notin Undoing(s)
        BY <1>1, <2>1, <2>2, <2>3 DEF RecordedIsApplied
    <2>4. CASE v \in Undoing(s)
        <3>1. session[s].pc \in {"execute", "forget"} /\ Cmd(s) = "rollback" /\ v = At(s)
            BY <2>4 DEF Undoing
        <3>2. Downwards(s) /\ Running(s) /\ session[s].pc \in Midway
            BY <3>1 DEF Downwards, Running, Midway
        <3>3. session[s].k = 1
            BY <1>1, <3>1, <3>2, AtHand DEF Counted
        <3> QED  BY <1>1, <2>1, <3>1, <3>2, <3>3 DEF UndoesRecorded
    <2> QED  BY <2>3, <2>4
<1> QED  BY <1>5, <1>6, <1>7, <1>8, <1>9, <1>10, <1>11 DEF MigrateInv

(* A new session overlaps those that run, and is mixed with them unless all go up.       *)
LEMMA BeginKeeps ==
    ASSUME MigrateInv, NEW s \in Sessions, NEW cmd \in {"up", "rollback"}, Begin(s, cmd)
    PROVE  MigrateInv'
<1>1. /\ TypeOK /\ Counted /\ Apart /\ BehindIsRecorded /\ UndoesRecorded /\ Exact
      /\ RecordedIsApplied
    BY DEF MigrateInv
<1>2. PICK new : new = [pc |-> "select", cmd |-> cmd, files |-> dir, todo |-> {}, k |-> 1]
    OBVIOUS
<1>3. /\ session'[s] = new
      /\ \A t \in Sessions \ {s} :
             /\ session'[t] = session[t] /\ At(t)' = At(t) /\ Script(t)' = Script(t)
             /\ Running(t)' = Running(t) /\ Cmd(t)' = Cmd(t)
             /\ Upwards(t)' = Upwards(t) /\ Downwards(t)' = Downwards(t)
             /\ Undoing(t)' = Undoing(t)
    <2>1. session' = [session EXCEPT ![s] = new]
        BY <1>2 DEF Begin
    <2> QED  BY <1>1, <2>1, OthersStay
<1>4. /\ session'[s].pc = "select" /\ session'[s].k = 1 /\ Running(s)' /\ Cmd(s)' = cmd
      /\ ~Upwards(s)' /\ ~Downwards(s)' /\ Undoing(s)' = {}
      /\ ~Running(s) /\ ~Upwards(s) /\ Undoing(s) = {}
      /\ UNCHANGED <<dir, schema, recorded, half>>
    BY <1>2, <1>3 DEF Begin, Running, Cmd, Upwards, Downwards, Undoing, Midway
<1>5. /\ trouble \subseteq trouble' /\ trouble' \subseteq {"overlap", "mixed", "fault"}
      /\ \A t \in Sessions \ {s} : Running(t) =>
             /\ "overlap" \in trouble'
             /\ "mixed" \in trouble' \/ (Cmd(t) = "up" /\ cmd = "up")
    <2>1. PICK others : others = {t \in Sessions \ {s} : Running(t)}
        OBVIOUS
    <2>2. trouble' = trouble
             \union (IF others = {} THEN {} ELSE {"overlap"})
             \union (IF "rollback" \in {cmd} \union {Cmd(t) : t \in others} /\ others # {}
                     THEN {"mixed"} ELSE {})
        BY <2>1 DEF Begin
    <2>3. trouble \subseteq trouble' /\ trouble' \subseteq {"overlap", "mixed", "fault"}
        BY <1>1, <2>2 DEF TypeOK
    <2>4. ASSUME NEW t \in Sessions \ {s}, Running(t)
          PROVE  /\ "overlap" \in trouble'
                 /\ "mixed" \in trouble' \/ (Cmd(t) = "up" /\ cmd = "up")
        <3>1. t \in others
            BY <2>1, <2>4
        <3>2. Cmd(t) \in {"up", "rollback"}
            BY <1>1, <2>4 DEF TypeOK, Session, Idle, Running, Cmd
        <3> QED  BY <2>2, <3>1, <3>2
    <2> QED  BY <2>3, <2>4
<1>6. TypeOK'
    <2>1. new \in Session
        BY <1>1, <1>2 DEF TypeOK, Session
    <2>2. session' \in [Sessions -> Session]
        BY <1>1, <1>2, <2>1 DEF TypeOK, Begin
    <2> QED  BY <1>1, <1>3, <1>4, <1>5, <2>2 DEF TypeOK
<1>7. Counted'
    BY <1>1, <1>3, <1>4 DEF Counted
<1>8. Apart'
    <2> SUFFICES ASSUME NEW t \in Sessions, NEW u \in Sessions, t # u, Running(t)', Running(u)'
                 PROVE  /\ "overlap" \in trouble'
                        /\ "mixed" \in trouble' \/ (Cmd(t)' = "up" /\ Cmd(u)' = "up")
        BY DEF Apart
    <2>1. CASE t # s /\ u # s
        <3>1. Running(t) /\ Running(u) /\ Cmd(t)' = Cmd(t) /\ Cmd(u)' = Cmd(u)
            BY <1>3, <2>1
        <3>2. /\ "overlap" \in trouble
              /\ "mixed" \in trouble \/ (Cmd(t) = "up" /\ Cmd(u) = "up")
            BY <1>1, <3>1 DEF Apart
        <3> QED  BY <1>5, <3>1, <3>2
    <2>2. CASE t = s
        BY <1>3, <1>4, <1>5, <2>2
    <2>3. CASE u = s
        BY <1>3, <1>4, <1>5, <2>3
    <2> QED  BY <2>1, <2>2, <2>3
<1>9. BehindIsRecorded'
    BY <1>1, <1>3, <1>4, <1>5 DEF BehindIsRecorded
<1>10. UndoesRecorded'
    BY <1>1, <1>3, <1>4, <1>5 DEF UndoesRecorded, Applied
<1>11. Exact'
    BY <1>1, <1>3, <1>4, <1>5 DEF Exact
<1>12. RecordedIsApplied'
    <2>1. UNION {Undoing(t)' : t \in Sessions} = UNION {Undoing(t) : t \in Sessions}
        BY <1>3, <1>4
    <2> QED  BY <1>1, <1>4, <1>5, <2>1 DEF RecordedIsApplied, Applied
<1> QED  BY <1>6, <1>7, <1>8, <1>9, <1>10, <1>11, <1>12 DEF MigrateInv
(* A session selects what is not recorded, or the last of what is.                       *)
LEMMA SelectKeeps ==
    ASSUME MigrateInv, NEW s \in Sessions, Select(s)
    PROVE  MigrateInv'
<1>1. /\ TypeOK /\ Counted /\ Apart /\ BehindIsRecorded /\ UndoesRecorded /\ Exact
      /\ RecordedIsApplied
    BY DEF MigrateInv
<1>2. session[s].pc = "select" /\ UNCHANGED <<dir, schema, recorded, trouble, half>>
    BY DEF Select
<1>3. CASE Pending(s) = {}
    <2>1. Stop(s) /\ session[s].k = 1 /\ ~Upwards(s)
        BY <1>1, <1>2, <1>3 DEF Select, Counted, Upwards, Midway
    <2> QED  BY <1>1, <1>2, <2>1, StopKeeps DEF TypeOK
<1>4. CASE Pending(s) # {}
    <2>1. PICK new : new = [session[s] EXCEPT !.pc = "read", !.todo = Pending(s)]
        OBVIOUS
    <2>2. session' = [session EXCEPT ![s] = new]
        BY <1>4, <2>1 DEF Select
    <2>3. /\ session'[s] = new
      /\ \A t \in Sessions \ {s} :
             /\ session'[t] = session[t] /\ At(t)' = At(t) /\ Script(t)' = Script(t)
             /\ Running(t)' = Running(t) /\ Cmd(t)' = Cmd(t)
             /\ Upwards(t)' = Upwards(t) /\ Downwards(t)' = Downwards(t)
             /\ Undoing(t)' = Undoing(t)
        BY <1>1, <2>2, OthersStay
    <2>4. session[s] \in [pc : {"select", "read", "execute", "record", "forget"},
                         cmd : {"up", "rollback"}, files : SUBSET Versions,
                         todo : SUBSET Versions, k : Nat]
        BY <1>1, <1>2 DEF TypeOK, Session, Idle
    <2>5. PICK applied : applied = session[s].files \intersect recorded
        OBVIOUS
    <2>6. applied # {} => Greatest(applied) \in applied
        <3>1. applied \in SUBSET Nat /\ IsFiniteSet(applied)
            BY <2>4, <2>5, MigrationAssumption, FS_Subset
        <3> QED  BY <3>1, ExtremesExist
    <2>7. /\ Pending(s) \in SUBSET Versions
          /\ Cmd(s) = "up" => Pending(s) = session[s].files \ recorded
          /\ Cmd(s) = "rollback" => Pending(s) \subseteq recorded
        BY <2>4, <2>5, <2>6 DEF Pending, Cmd
    <2>8. /\ new.pc = "read" /\ new.todo = Pending(s) /\ new.k = 1
          /\ new.files = session[s].files /\ new.cmd = Cmd(s) /\ new \in Session
        BY <1>1, <1>2, <2>1, <2>4, <2>7 DEF Counted, Session, Cmd
    <2>9. TypeOK'
        <3>1. session' \in [Sessions -> Session]
            BY <1>1, <2>2, <2>8 DEF TypeOK
        <3> QED  BY <1>1, <1>2, <1>4, <2>3, <2>8, <3>1 DEF TypeOK
    <2>10. /\ Running(s) /\ Running(s)' /\ Cmd(s)' = Cmd(s)
           /\ Upwards(s)' <=> Cmd(s) = "up"
           /\ Downwards(s)' <=> Cmd(s) = "rollback"
           /\ ~Upwards(s) /\ Undoing(s)' = {} /\ Undoing(s) = {}
        BY <1>2, <2>3, <2>8 DEF Running, Cmd, Upwards, Downwards, Undoing, Midway
    <2>11. At(s)' \in Pending(s)
        <3>1. session'[s].pc \in Midway
            BY <2>3, <2>8 DEF Midway
        <3>2. At(s)' \in session'[s].todo
            BY <1>4, <2>3, <2>7, <2>8, MigrationAssumption, FS_Subset, ExtremesExist DEF At
        <3> QED  BY <2>3, <2>8, <3>2
    <2>12. Counted'
        BY <1>1, <2>3, <2>8 DEF Counted
    <2>13. Apart'
        BY <1>1, <1>2, <2>3, <2>10 DEF Apart
    <2>14. BehindIsRecorded'
        <3>1. Cmd(s) = "up" => \A u \in session[s].files \ Pending(s) : u \in recorded
            BY <2>7
        <3>2. At(s)' \in Versions /\ \A j \in 1 .. Up[At(s)'] : ~(j < 1)
            BY <2>7, <2>11, MigrationAssumption
        <3> QED  BY <1>1, <1>2, <2>3, <2>8, <2>10, <3>1, <3>2 DEF BehindIsRecorded
    <2>15. UndoesRecorded'
        <3>1. ASSUME "mixed" \notin trouble, Cmd(s) = "rollback", At(s)' \notin half
              PROVE  Applied(At(s)')
            <4>1. At(s)' \in recorded
                BY <2>7, <2>11, <3>1
            <4>2. \A t \in Sessions : Undoing(t) = {}
                BY <1>1, <2>10, <3>1 DEF Apart, Undoing, Running
            <4> QED  BY <1>1, <3>1, <4>1, <4>2 DEF RecordedIsApplied
        <3>2. Cmd(s) = "rollback" => At(s)' \in recorded
            BY <2>7, <2>11
        <3> QED  BY <1>1, <1>2, <2>3, <2>8, <2>10, <3>1, <3>2 DEF UndoesRecorded, Applied
    <2>16. Exact'
        <3>1. \A j \in 1 .. Up[At(s)'] : ~(j + 1 > Up[At(s)'] + 1)
            BY <2>7, <2>11, MigrationAssumption
        <3>2. Cmd(s) = "up" => Pending(s) \intersect recorded = {}
            BY <2>7
        <3> QED  BY <1>1, <1>2, <2>3, <2>8, <2>10, <3>1, <3>2 DEF Exact
    <2>17. RecordedIsApplied'
        <3>1. UNION {Undoing(t)' : t \in Sessions} = UNION {Undoing(t) : t \in Sessions}
            BY <2>3, <2>10
        <3> QED  BY <1>1, <1>2, <3>1 DEF RecordedIsApplied, Applied
    <2> QED  BY <2>9, <2>12, <2>13, <2>14, <2>15, <2>16, <2>17 DEF MigrateInv
<1> QED  BY <1>3, <1>4

(* The file at hand is put behind: it was empty, or it is recorded now, and all of it is *)
(* in effect.                                                                            *)
LEMMA NextFileKeeps ==
    ASSUME MigrateInv, NEW s \in Sessions, Upwards(s), NextFile(s),
           UNCHANGED <<dir, schema, trouble, half>>,
           \/ recorded' = recorded /\ Up[At(s)] = 0
           \/ recorded' = recorded \union {At(s)}
              /\ ("mixed" \notin trouble => Applied(At(s)))
    PROVE  MigrateInv'
<1>1. /\ TypeOK /\ Counted /\ Apart /\ BehindIsRecorded /\ UndoesRecorded /\ Exact
      /\ RecordedIsApplied
    BY DEF MigrateInv
<1>2. /\ session[s] \in [pc : {"select", "read", "execute", "record", "forget"},
                         cmd : {"up", "rollback"}, files : SUBSET Versions,
                         todo : SUBSET Versions, k : Nat]
      /\ At(s) \in session[s].todo /\ At(s) \in Versions /\ Up[At(s)] \in Nat
      /\ session[s].pc \in Midway /\ Cmd(s) = "up"
    BY <1>1, AtHand DEF Upwards
<1>3. /\ recorded \subseteq recorded' /\ recorded' \subseteq recorded \union {At(s)}
      /\ recorded' \subseteq Versions /\ (Up[At(s)] > 0 => At(s) \in recorded')
    BY <1>1, <1>2 DEF TypeOK
<1>4. PICK rest : rest = session[s].todo \ {At(s)}
    OBVIOUS
<1>5. PICK new : new = IF rest = {} THEN Idle
                       ELSE [session[s] EXCEPT !.pc = "read", !.todo = rest, !.k = 1]
    OBVIOUS
<1>6. session' = [session EXCEPT ![s] = new]
    BY <1>4, <1>5 DEF NextFile, Stop
<1>7. /\ session'[s] = new
      /\ \A t \in Sessions \ {s} :
             /\ session'[t] = session[t] /\ At(t)' = At(t) /\ Script(t)' = Script(t)
             /\ Running(t)' = Running(t) /\ Cmd(t)' = Cmd(t)
             /\ Upwards(t)' = Upwards(t) /\ Downwards(t)' = Downwards(t)
             /\ Undoing(t)' = Undoing(t)
    BY <1>1, <1>6, OthersStay
<1>8. \/ /\ rest = {} /\ new.pc = "idle" /\ ~Running(s)' /\ ~Upwards(s)' /\ ~Downwards(s)'
      \/ /\ rest # {} /\ new.pc = "read" /\ new.todo = rest /\ new.k = 1
         /\ new.files = session[s].files /\ Cmd(s)' = "up" /\ ~Downwards(s)' /\ Running(s)
    BY <1>2, <1>5, <1>7 DEF Idle, Running, Cmd, Upwards, Downwards, Midway
<1>9. Undoing(s)' = {} /\ Undoing(s) = {} /\ ~Downwards(s)' /\ new \in Session
    <2>1. CASE rest = {}
        BY <1>2, <1>5, <1>7, <1>8, <2>1 DEF Undoing, Cmd, Idle, Session
    <2>2. CASE rest # {}
        <3>1. new = [session[s] EXCEPT !.pc = "read", !.todo = rest, !.k = 1]
            BY <1>5, <2>2
        <3>2. new \in Session
            BY <1>2, <1>4, <3>1 DEF Session
        <3> QED  BY <1>2, <1>7, <1>8, <2>2, <3>2 DEF Undoing, Cmd
    <2> QED  BY <2>1, <2>2
<1>10. TypeOK'
    <2>1. session' \in [Sessions -> Session]
        BY <1>1, <1>6, <1>9 DEF TypeOK
    <2> QED  BY <1>1, <1>3, <1>7, <1>8, <2>1 DEF TypeOK
<1>11. Counted'
    BY <1>1, <1>7, <1>8 DEF Counted
<1>12. Apart'
    BY <1>1, <1>2, <1>7, <1>8 DEF Apart
<1>13. BehindIsRecorded'
    <2> SUFFICES ASSUME "mixed" \notin trouble, NEW t \in Sessions, Upwards(t)'
                 PROVE  /\ \A u \in session'[t].files \ session'[t].todo :
                               Up[u] > 0 => u \in recorded'
                        /\ \A j \in 1 .. Up[At(t)'] :
                               j < session'[t].k => <<At(t)', j>> \in schema
        BY DEF BehindIsRecorded
    <2>1. CASE t = s
        <3>1. rest # {} /\ new.todo = rest /\ new.k = 1 /\ new.files = session[s].files
            BY <1>8, <2>1
        <3>2. \A u \in session[s].files \ rest : Up[u] > 0 => u \in recorded'
            BY <1>1, <1>3, <1>4 DEF BehindIsRecorded
        <3>3. At(s)' \in Versions
            BY <1>7, <1>10, <2>1, AtHand, <3>1, <1>2, <1>4, MigrationAssumption, FS_Subset,
               ExtremesExist DEF At
        <3>4. \A j \in 1 .. Up[At(s)'] : ~(j < 1)
            BY <3>3, MigrationAssumption
        <3> QED  BY <1>7, <2>1, <3>1, <3>2, <3>4
    <2>2. CASE t # s
        BY <1>1, <1>3, <1>7, <2>2 DEF BehindIsRecorded
    <2> QED  BY <2>1, <2>2
<1>14. UndoesRecorded'
    BY <1>1, <1>3, <1>7, <1>9 DEF UndoesRecorded, Applied
<1>15. Exact'
    <2> SUFFICES ASSUME trouble = {} PROVE Exact'
        BY DEF Exact
    <2>1. \A t \in Sessions \ {s} : ~Upwards(t) /\ ~Downwards(t)
        BY <1>1, <1>2 DEF Apart, Running, Upwards, Downwards, Midway
    <2>2. session[s].todo \intersect recorded = {}
        BY <1>1 DEF Exact
    <2>3. rest \intersect recorded' = {}
        BY <1>3, <1>4, <2>2
    <2>4. ASSUME NEW v \in Versions \ (Unsafe \union recorded'), NEW j \in 1 .. Up[v]
          PROVE  <<v, j>> \notin schema
        <3>1. v # At(s)
            BY <1>2, <1>3, <2>4
        <3> QED  BY <1>1, <1>3, <2>1, <2>4, <3>1 DEF Exact
    <2> QED  BY <1>7, <1>8, <1>9, <2>1, <2>3, <2>4 DEF Exact
<1>16. RecordedIsApplied'
    <2>1. UNION {Undoing(t)' : t \in Sessions} = UNION {Undoing(t) : t \in Sessions}
        BY <1>7, <1>9
    <2>2. Up[At(s)] = 0 => Applied(At(s))
        BY DEF Applied
    <2> QED  BY <1>1, <2>1, <2>2 DEF RecordedIsApplied, Applied
<1> QED  BY <1>10, <1>11, <1>12, <1>13, <1>14, <1>15, <1>16 DEF MigrateInv
(* A script that is not empty is begun; an empty down section is forgotten at once.      *)
LEMMA ScriptKeeps ==
    ASSUME MigrateInv, NEW s \in Sessions, Read(s)
    PROVE  MigrateInv'
<1>1. /\ TypeOK /\ Counted /\ Apart /\ BehindIsRecorded /\ UndoesRecorded /\ Exact
      /\ RecordedIsApplied
    BY DEF MigrateInv
<1>2. /\ session[s].pc = "read" /\ session[s].pc \in Midway /\ session[s].k = 1
      /\ UNCHANGED <<dir, schema, recorded, trouble, half>>
      /\ Script(s) # NoSection
    BY <1>1 DEF Read, Counted, Midway
<1>3. /\ session[s] \in [pc : {"select", "read", "execute", "record", "forget"},
                         cmd : {"up", "rollback"}, files : SUBSET Versions,
                         todo : SUBSET Versions, k : Nat]
      /\ At(s) \in session[s].todo /\ At(s) \in Versions /\ Up[At(s)] \in Nat
    BY <1>1, <1>2, AtHand
<1>4. Script(s) = Up[At(s)]
    BY <1>2, <1>3, MigrationAssumption DEF Script
<1>5. CASE Script(s) = 0 /\ Cmd(s) = "up"
    <2>1. Upwards(s) /\ NextFile(s)
        BY <1>2, <1>5 DEF Read, Upwards
    <2> QED  BY <1>2, <1>4, <1>5, <2>1, NextFileKeeps
<1>6. CASE ~(Script(s) = 0 /\ Cmd(s) = "up")
    <2>1. PICK to : to = IF Script(s) > 0 THEN "execute" ELSE "forget"
        OBVIOUS
    <2>2. PICK new : new = [session[s] EXCEPT !.pc = to]
        OBVIOUS
    <2>3. session' = [session EXCEPT ![s] = new]
        <3>1. Script(s) > 0 \/ (~(Script(s) > 0) /\ Script(s) = 0)
            BY <1>3, <1>4
        <3>2. session' = [session EXCEPT ![s].pc = to]
            BY <1>6, <2>1, <3>1 DEF Read, Goto
        <3> QED  BY <1>1, <2>2, <3>2 DEF TypeOK
    <2>4. /\ session'[s] = new
          /\ \A t \in Sessions \ {s} :
                 /\ session'[t] = session[t] /\ At(t)' = At(t) /\ Script(t)' = Script(t)
                 /\ Running(t)' = Running(t) /\ Cmd(t)' = Cmd(t)
                 /\ Upwards(t)' = Upwards(t) /\ Downwards(t)' = Downwards(t)
                 /\ Undoing(t)' = Undoing(t)
        BY <1>1, <2>3, OthersStay
    <2>5. /\ new \in Session /\ new.pc = to /\ new.todo = session[s].todo
          /\ new.k = 1 /\ new.files = session[s].files /\ new.cmd = Cmd(s)
        BY <1>2, <1>3, <2>1, <2>2 DEF Session, Cmd
    <2>6. /\ At(s)' = At(s) /\ Cmd(s)' = Cmd(s) /\ Script(s)' = Script(s)
          /\ Running(s) /\ Running(s)' /\ Undoing(s) = {}
          /\ Upwards(s)' = Upwards(s) /\ Downwards(s)' = Downwards(s)
        BY <1>2, <2>1, <2>4, <2>5 DEF At, Cmd, Script, Running, Undoing, Upwards, Downwards, Midway
    <2>7. TypeOK'
        <3>1. session' \in [Sessions -> Session]
            BY <1>1, <2>3, <2>5 DEF TypeOK
        <3> QED  BY <1>1, <1>2, <1>3, <2>4, <2>5, <3>1 DEF TypeOK
    <2>8. Counted'
        <3>1. CASE to = "execute"
            <4>1. 1 \in 1 .. Up[At(s)]
                BY <1>3, <1>4, <2>1, <3>1
            <4> QED  BY <1>1, <1>4, <2>4, <2>5, <2>6, <3>1, <4>1 DEF Counted
        <3>2. CASE to = "forget"
            <4>1. Up[At(s)] = 0 /\ Cmd(s) = "rollback"
                BY <1>3, <1>4, <1>6, <2>1, <3>2 DEF Cmd
            <4> QED  BY <1>1, <2>4, <2>5, <2>6, <3>2, <4>1 DEF Counted
        <3> QED  BY <2>1, <3>1, <3>2
    <2>9. Apart'
        BY <1>1, <1>2, <2>4, <2>6 DEF Apart
    <2>10. BehindIsRecorded'
        BY <1>1, <1>2, <2>4, <2>5, <2>6 DEF BehindIsRecorded
    <2>11. UndoesRecorded'
        BY <1>1, <1>2, <2>4, <2>5, <2>6 DEF UndoesRecorded, Applied
    <2>12. Exact'
        BY <1>1, <1>2, <2>4, <2>5, <2>6 DEF Exact
    <2>13. RecordedIsApplied'
        <3>1. UNION {Undoing(t) : t \in Sessions} \subseteq UNION {Undoing(t)' : t \in Sessions}
            BY <2>4, <2>6
        <3> QED  BY <1>1, <1>2, <3>1 DEF RecordedIsApplied, Applied
    <2> QED  BY <2>7, <2>8, <2>9, <2>10, <2>11, <2>12, <2>13 DEF MigrateInv
<1> QED  BY <1>5, <1>6

(* A statement takes effect, or is undone.                                               *)
LEMMA ExecuteKeeps ==
    ASSUME MigrateInv, NEW s \in Sessions, Execute(s)
    PROVE  MigrateInv'
<1>1. /\ TypeOK /\ Counted /\ Apart /\ BehindIsRecorded /\ UndoesRecorded /\ Exact
      /\ RecordedIsApplied
    BY DEF MigrateInv
<1>2. /\ session[s].pc = "execute" /\ session[s].pc \in Midway
      /\ UNCHANGED <<dir, recorded, trouble, half>>
    BY DEF Execute, Midway
<1>3. /\ session[s] \in [pc : {"select", "read", "execute", "record", "forget"},
                         cmd : {"up", "rollback"}, files : SUBSET Versions,
                         todo : SUBSET Versions, k : Nat]
      /\ At(s) \in session[s].todo /\ At(s) \in Versions /\ Up[At(s)] \in Nat
      /\ session[s].k \in Nat
    BY <1>1, <1>2, AtHand
<1>4. session[s].k \in 1 .. Up[At(s)] /\ Script(s) = Up[At(s)]
    BY <1>1, <1>2 DEF Counted
<1>5. PICK to : to = IF session[s].k = Script(s) THEN Tracking(s) ELSE "execute"
    OBVIOUS
<1>6. PICK new : new = [session[s] EXCEPT !.k = session[s].k + 1, !.pc = to]
    OBVIOUS
<1>7. session' = [session EXCEPT ![s] = new]
    BY <1>1, <1>2, <1>3, <1>5, <1>6 DEF Execute, TypeOK
<1>8. /\ session'[s] = new
      /\ \A t \in Sessions \ {s} :
             /\ session'[t] = session[t] /\ At(t)' = At(t) /\ Script(t)' = Script(t)
             /\ Running(t)' = Running(t) /\ Cmd(t)' = Cmd(t)
             /\ Upwards(t)' = Upwards(t) /\ Downwards(t)' = Downwards(t)
             /\ Undoing(t)' = Undoing(t)
    BY <1>1, <1>7, OthersStay
<1>9. /\ Cmd(s) \in {"up", "rollback"}
      /\ \/ to = "execute" /\ session[s].k < Up[At(s)]
         \/ to = "record" /\ session[s].k = Up[At(s)] /\ Cmd(s) = "up"
         \/ to = "forget" /\ session[s].k = Up[At(s)] /\ Cmd(s) = "rollback"
    BY <1>3, <1>4, <1>5 DEF Tracking, Cmd
<1>10. /\ new \in Session /\ new.pc = to /\ new.todo = session[s].todo
       /\ new.k = session[s].k + 1 /\ new.files = session[s].files /\ new.cmd = Cmd(s)
    <2>1. session[s].k + 1 \in Nat /\ to \in {"execute", "record", "forget"}
        BY <1>3, <1>9
    <2>2. new \in [pc : {"select", "read", "execute", "record", "forget"},
                  cmd : {"up", "rollback"}, files : SUBSET Versions,
                  todo : SUBSET Versions, k : Nat]
        BY <1>3, <1>6, <2>1
    <2> QED  BY <1>3, <1>6, <2>2 DEF Session, Cmd
<1>11. /\ At(s)' = At(s) /\ Cmd(s)' = Cmd(s) /\ Script(s)' = Script(s)
       /\ Running(s) /\ Running(s)'
       /\ Upwards(s)' = (Cmd(s) = "up") /\ Downwards(s)' = (Cmd(s) = "rollback")
       /\ Upwards(s) = (Cmd(s) = "up") /\ Downwards(s) = (Cmd(s) = "rollback")
    BY <1>2, <1>8, <1>9, <1>10 DEF At, Cmd, Script, Running, Upwards, Downwards, Midway
<1>12. PICK number : /\ number = IF Cmd(s) = "up" THEN session[s].k
                                  ELSE Up[At(s)] + 1 - session[s].k
                     /\ number \in 1 .. Up[At(s)]
    BY <1>3, <1>4
<1>13. schema' = IF Cmd(s) = "up" THEN schema \union {<<At(s), number>>}
                 ELSE schema \ {<<At(s), number>>}
    BY <1>12 DEF Execute, Object
<1>14. TypeOK'
    <2>1. session' \in [Sessions -> Session]
        BY <1>1, <1>7, <1>10 DEF TypeOK
    <2>2. <<At(s), number>> \in Objects
        BY <1>3, <1>12 DEF Objects
    <2>3. schema' \subseteq Objects
        BY <1>1, <1>13, <2>2 DEF TypeOK
    <2> QED  BY <1>1, <1>2, <1>3, <1>8, <1>10, <2>1, <2>3 DEF TypeOK
<1>15. Counted'
    <2>1. \/ to = "execute" /\ new.k \in 1 .. Up[At(s)]
          \/ to = "record" /\ new.k = Up[At(s)] + 1 /\ Cmd(s) = "up" /\ Up[At(s)] > 0
          \/ to = "forget" /\ new.k = Up[At(s)] + 1 /\ Cmd(s) = "rollback"
        BY <1>3, <1>4, <1>9, <1>10
    <2> QED  BY <1>1, <1>4, <1>8, <1>10, <1>11, <2>1 DEF Counted
<1>16. Apart'
    BY <1>1, <1>2, <1>8, <1>11 DEF Apart
<1>17. ASSUME "mixed" \notin trouble, Cmd(s) = "rollback", NEW t \in Sessions \ {s}
       PROVE  ~Upwards(t) /\ ~Downwards(t) /\ Undoing(t) = {}
    BY <1>1, <1>11, <1>17 DEF Apart, Running, Upwards, Downwards, Undoing, Midway
<1>18. BehindIsRecorded'
    <2> SUFFICES ASSUME "mixed" \notin trouble, NEW t \in Sessions, Upwards(t)'
                 PROVE  /\ \A u \in session'[t].files \ session'[t].todo :
                               Up[u] > 0 => u \in recorded
                        /\ \A j \in 1 .. Up[At(t)'] :
                               j < session'[t].k => <<At(t)', j>> \in schema'
        BY <1>2 DEF BehindIsRecorded
    <2>1. CASE t = s
        <3>1. schema' = schema \union {<<At(s), session[s].k>>} /\ Upwards(s)
            BY <1>11, <1>12, <1>13, <2>1
        <3>2. \A j \in 1 .. Up[At(s)] : j < session[s].k + 1 => j < session[s].k \/ j = session[s].k
            BY <1>3
        <3> QED  BY <1>1, <1>8, <1>10, <1>11, <2>1, <3>1, <3>2 DEF BehindIsRecorded
    <2>2. CASE t # s
        <3>1. Upwards(t) /\ schema \subseteq schema'
            BY <1>8, <1>9, <1>13, <1>17, <2>2
        <3> QED  BY <1>1, <1>8, <2>2, <3>1 DEF BehindIsRecorded
    <2> QED  BY <2>1, <2>2
<1>19. UndoesRecorded'
    <2> SUFFICES ASSUME "mixed" \notin trouble, NEW t \in Sessions, Downwards(t)'
                 PROVE  /\ At(t)' \in recorded
                        /\ session'[t].k = 1 /\ At(t)' \notin half => Applied(At(t))'
        BY <1>2 DEF UndoesRecorded, Applied
    <2>1. CASE t = s
        <3>1. new.k # 1
            BY <1>3, <1>4, <1>10
        <3> QED  BY <1>1, <1>8, <1>11, <2>1, <3>1 DEF UndoesRecorded
    <2>2. CASE t # s
        <3>1. Downwards(t) /\ schema \subseteq schema'
            BY <1>8, <1>9, <1>13, <1>17, <2>2
        <3> QED  BY <1>1, <1>8, <2>2, <3>1 DEF UndoesRecorded, Applied
    <2> QED  BY <2>1, <2>2
<1>20. Exact'
    <2> SUFFICES ASSUME trouble = {} PROVE Exact'
        BY <1>2 DEF Exact
    <2>1. \A t \in Sessions \ {s} : ~Upwards(t)' /\ ~Downwards(t)' /\ ~Upwards(t)
        BY <1>1, <1>8, <1>11 DEF Apart, Running, Upwards, Downwards, Midway
    <2>2. Upwards(s)' => session'[s].todo \intersect recorded = {}
        BY <1>1, <1>8, <1>10, <1>11 DEF Exact
    <2>3. ASSUME Cmd(s) = "rollback", NEW j \in 1 .. Up[At(s)],
                 j + (session[s].k + 1) > Up[At(s)] + 1
          PROVE  <<At(s), j>> \notin schema'
        <3>1. schema' = schema \ {<<At(s), number>>} /\ number = Up[At(s)] + 1 - session[s].k
            BY <1>12, <1>13, <2>3
        <3>2. j = number \/ j + session[s].k > Up[At(s)] + 1
            BY <1>3, <1>4, <2>3, <3>1
        <3> QED  BY <1>1, <1>11, <2>3, <3>1, <3>2 DEF Exact
    <2>4. ASSUME NEW v \in Versions \ (Unsafe \union recorded), NEW j \in 1 .. Up[v],
                 <<v, j>> \in schema'
          PROVE  Cmd(s) = "up" /\ At(s) = v /\ j < session[s].k + 1
        <3>1. <<v, j>> \in schema => Upwards(s) /\ At(s) = v /\ j < session[s].k
            BY <1>1, <2>1, <2>4 DEF Exact
        <3>2. <<v, j>> \notin schema => Cmd(s) = "up" /\ At(s) = v /\ j = session[s].k
            BY <1>12, <1>13, <2>4
        <3>3. j \in Nat /\ (j < session[s].k \/ j = session[s].k => j < session[s].k + 1)
            BY <1>3, <2>4, MigrationAssumption
        <3> QED  BY <1>11, <2>4, <3>1, <3>2, <3>3
    <2>5. ASSUME NEW v \in Versions \ (Unsafe \union recorded), NEW j \in 1 .. Up[v],
                 <<v, j>> \in schema'
          PROVE  Upwards(s)' /\ At(s)' = v /\ j < session'[s].k
        BY <1>8, <1>10, <1>11, <2>4, <2>5
    <2> QED  BY <1>2, <1>8, <1>10, <1>11, <2>1, <2>2, <2>3, <2>5 DEF Exact
<1>21. RecordedIsApplied'
    <2> SUFFICES ASSUME "mixed" \notin trouble,
                        NEW v \in recorded \ (half \union UNION {Undoing(t)' : t \in Sessions})
                 PROVE  Applied(v)'
        BY <1>2 DEF RecordedIsApplied
    <2>1. Undoing(s)' = Undoing(s)
        BY <1>2, <1>8, <1>9, <1>10, <1>11 DEF Undoing
    <2>2. \A t \in Sessions : Undoing(t)' = Undoing(t)
        BY <1>8, <2>1
    <2>3. Applied(v)
        BY <1>1, <2>2 DEF RecordedIsApplied
    <2>4. CASE Cmd(s) = "up"
        BY <1>13, <2>3, <2>4 DEF Applied
    <2>5. CASE Cmd(s) = "rollback"
        <3>1. v # At(s)
            BY <1>2, <2>2, <2>5 DEF Undoing
        <3> QED  BY <1>13, <2>3, <2>5, <3>1 DEF Applied
    <2> QED  BY <1>9, <2>4, <2>5
<1> QED  BY <1>14, <1>15, <1>16, <1>18, <1>19, <1>20, <1>21 DEF MigrateInv
(* A statement that is refused has run before, of a file that is not done.               *)
LEMMA RefusedWasRun ==
    ASSUME MigrateInv, NEW s \in Sessions, session[s].pc = "execute", Refused(s), trouble = {},
           Cmd(s) = "up"
    PROVE  At(s) \in Unsafe \union recorded
<1>1. TypeOK /\ Counted /\ Apart /\ Exact
    BY DEF MigrateInv
<1>2. /\ Upwards(s) /\ At(s) \in Versions /\ session[s].k \in 1 .. Up[At(s)] /\ session[s].k \in Nat
    BY <1>1, AtHand DEF Counted, Midway, Upwards
<1>3. \A t \in Sessions \ {s} : ~Upwards(t)
    BY <1>1, <1>2 DEF Apart, Running, Upwards, Midway
<1>4. <<At(s), session[s].k>> \in schema
    BY DEF Refused, Object
<1>5. ~(session[s].k < session[s].k)
    BY <1>2
<1> QED  BY <1>1, <1>2, <1>3, <1>4, <1>5 DEF Exact

(* A rollback that is through forgets its version.                                       *)
LEMMA ForgetKeeps ==
    ASSUME MigrateInv, NEW s \in Sessions, Forget(s)
    PROVE  MigrateInv'
<1>1. /\ TypeOK /\ Counted /\ Apart /\ BehindIsRecorded /\ UndoesRecorded /\ Exact
      /\ RecordedIsApplied
    BY DEF MigrateInv
<1>2. /\ session[s].pc = "forget" /\ session[s].pc \in Midway /\ Cmd(s) = "rollback"
      /\ session[s].k = Up[At(s)] + 1 /\ Downwards(s) /\ Running(s) /\ ~Upwards(s)
      /\ recorded' = recorded \ {At(s)} /\ half' = half \ {At(s)} /\ Stop(s)
      /\ UNCHANGED <<dir, schema, trouble>>
    BY <1>1 DEF Forget, Counted, Midway, Downwards, Running, Upwards
<1>3. At(s) \in Versions /\ Up[At(s)] \in Nat
    BY <1>1, <1>2, AtHand
<1>4. /\ session'[s] = Idle
      /\ \A t \in Sessions \ {s} :
             /\ session'[t] = session[t] /\ At(t)' = At(t) /\ Script(t)' = Script(t)
             /\ Running(t)' = Running(t) /\ Cmd(t)' = Cmd(t)
             /\ Upwards(t)' = Upwards(t) /\ Downwards(t)' = Downwards(t)
             /\ Undoing(t)' = Undoing(t)
    BY <1>1, <1>2, OthersStay DEF Stop
<1>5. /\ session'[s].pc = "idle" /\ ~Running(s)' /\ ~Upwards(s)' /\ ~Downwards(s)'
      /\ Undoing(s)' = {} /\ Undoing(s) = {At(s)}
    BY <1>2, <1>4 DEF Idle, Running, Upwards, Downwards, Undoing, Midway
<1>6. ASSUME "mixed" \notin trouble, NEW t \in Sessions
      PROVE  ~Upwards(t)' /\ ~Downwards(t)' /\ Undoing(t)' = {} /\ (t # s => Undoing(t) = {})
             /\ ~Upwards(t)
    BY <1>1, <1>2, <1>4, <1>5, <1>6 DEF Apart, Running, Upwards, Downwards, Undoing, Midway
<1>7. TypeOK'
    <2>1. session' \in [Sessions -> Session]
        BY <1>1, <1>2 DEF TypeOK, Stop, Session
    <2> QED  BY <1>1, <1>2, <1>4, <1>5, <2>1 DEF TypeOK
<1>8. Counted'
    BY <1>1, <1>4, <1>5 DEF Counted
<1>9. Apart'
    BY <1>1, <1>2, <1>4, <1>5 DEF Apart
<1>10. BehindIsRecorded' /\ UndoesRecorded'
    BY <1>2, <1>6 DEF BehindIsRecorded, UndoesRecorded
<1>11. Exact'
    <2> SUFFICES ASSUME trouble = {} PROVE Exact'
        BY <1>2 DEF Exact
    <2>1. \A j \in 1 .. Up[At(s)] : <<At(s), j>> \notin schema
        <3>1. \A j \in 1 .. Up[At(s)] : j + session[s].k > Up[At(s)] + 1
            BY <1>2, <1>3
        <3> QED  BY <1>1, <1>2, <3>1 DEF Exact
    <2>2. ASSUME NEW v \in Versions \ (Unsafe \union recorded'), NEW j \in 1 .. Up[v]
          PROVE  <<v, j>> \notin schema
        <3>1. CASE v = At(s)
            BY <2>1, <2>2, <3>1
        <3>2. CASE v # At(s)
            BY <1>1, <1>2, <1>6, <2>2, <3>2 DEF Exact
        <3> QED  BY <3>1, <3>2
    <2> QED  BY <1>2, <1>6, <2>2 DEF Exact
<1>12. RecordedIsApplied'
    <2> SUFFICES ASSUME "mixed" \notin trouble, NEW v \in recorded' \ half'
                 PROVE  Applied(v)
        BY <1>2 DEF RecordedIsApplied, Applied
    <2>1. v \in recorded \ half /\ v # At(s)
        BY <1>2
    <2>2. UNION {Undoing(t) : t \in Sessions} = {At(s)}
        BY <1>5, <1>6
    <2> QED  BY <1>1, <2>1, <2>2 DEF RecordedIsApplied
<1> QED  BY <1>7, <1>8, <1>9, <1>10, <1>11, <1>12 DEF MigrateInv

(* Every step of every session keeps the invariant, and so does a change of the files.   *)
LEMMA MigrateKeeps ==
    ASSUME MigrateInv, Next
    PROVE  MigrateInv'
<1>1. /\ TypeOK /\ Counted /\ BehindIsRecorded
    BY DEF MigrateInv
<1>2. ASSUME NEW v \in Late, ChangeDir(v) PROVE MigrateInv'
    <2>1. UNCHANGED <<schema, recorded, session, trouble, half>> /\ dir' \subseteq Versions
        BY <1>1, <1>2, MigrationAssumption DEF ChangeDir, TypeOK
    <2>2. TypeOK' /\ Counted' /\ Apart'
        BY <2>1 DEF MigrateInv, TypeOK, Counted, Apart, At, Script, Running, Cmd
    <2>3. BehindIsRecorded' /\ UndoesRecorded' /\ Exact'
        BY <2>1 DEF MigrateInv, BehindIsRecorded, UndoesRecorded, Exact, Upwards, Downwards, At, Cmd,
                    Applied
    <2>4. RecordedIsApplied'
        BY <2>1 DEF MigrateInv, RecordedIsApplied, Applied, Undoing, At, Cmd
    <2> QED  BY <2>2, <2>3, <2>4 DEF MigrateInv
<1>3. ASSUME NEW s \in Sessions, CannotRead(s) PROVE MigrateInv'
    <2>1. /\ Stop(s) /\ session[s].k = 1 /\ session[s].pc \in Midway
          /\ UNCHANGED <<dir, schema, recorded, trouble, half>>
        BY <1>1, <1>3 DEF CannotRead, Counted, Midway
    <2>2. \A j \in 1 .. Up[At(s)] : ~(j < session[s].k)
        BY <1>1, <2>1, AtHand
    <2> QED  BY <1>1, <2>1, <2>2, StopKeeps DEF TypeOK
<1>4. ASSUME NEW s \in Sessions, ExecuteFails(s) PROVE MigrateInv'
    <2>1. /\ session[s].pc = "execute" /\ Refused(s) /\ Stop(s)
          /\ UNCHANGED <<dir, schema, recorded, trouble>>
          /\ IF Running(s) /\ Cmd(s) = "rollback" /\ session[s].k > 1
             THEN half' = half \union {At(s)} ELSE half' = half
        BY <1>4 DEF ExecuteFails, Halves
    <2>2. trouble' = {} /\ Upwards(s) => At(s) \in Unsafe \union recorded
        BY <2>1, RefusedWasRun DEF Upwards
    <2> QED  BY <1>1, <2>1, <2>2, StopKeeps DEF TypeOK
<1>5. ASSUME NEW s \in Sessions, Record(s) PROVE MigrateInv'
    <2>1. /\ session[s].pc = "record" /\ session[s].pc \in Midway /\ Cmd(s) = "up" /\ Upwards(s)
          /\ session[s].k = Up[At(s)] + 1 /\ UNCHANGED <<dir, schema, trouble, half>>
        BY <1>1, <1>5 DEF Record, Counted, Midway, Upwards
    <2>2. CASE At(s) \in Unsafe \union recorded
        <3>1. Stop(s) /\ UNCHANGED recorded
            BY <1>5, <2>2 DEF Record
        <3> QED  BY <1>1, <2>1, <2>2, <3>1, StopKeeps DEF TypeOK
    <2>3. CASE At(s) \notin Unsafe \union recorded
        <3>1. recorded' = recorded \union {At(s)} /\ NextFile(s)
            BY <1>5, <2>3 DEF Record
        <3>2. \A j \in 1 .. Up[At(s)] : j < session[s].k
            BY <1>1, <2>1, AtHand
        <3>3. "mixed" \notin trouble => Applied(At(s))
            BY <1>1, <2>1, <3>2 DEF BehindIsRecorded, Applied
        <3> QED  BY <2>1, <3>1, <3>3, NextFileKeeps
    <2> QED  BY <2>2, <2>3
<1>6. ASSUME NEW s \in Sessions, Breaks(s) PROVE MigrateInv'
    <2>1. /\ Stop(s) /\ trouble' = trouble \union {"fault"} /\ UNCHANGED <<dir, schema, recorded>>
          /\ IF Running(s) /\ Cmd(s) = "rollback" /\ session[s].k > 1
             THEN half' = half \union {At(s)} ELSE half' = half
        BY <1>6 DEF Breaks, Halves
    <2>2. trouble' # {} /\ trouble' \subseteq {"overlap", "mixed", "fault"}
        BY <1>1, <2>1 DEF TypeOK
    <2> QED  BY <2>1, <2>2, StopKeeps
<1> QED  BY <1>2, <1>3, <1>4, <1>5, <1>6, BeginKeeps, SelectKeeps, ScriptKeeps, ExecuteKeeps,
            ForgetKeeps DEF Next, Migrate

(* "Each file runs exactly once", files run in the order of their names, and what is      *)
(* recorded is in effect, for any files, number of statements and invocations, whatever   *)
(* breaks and overlaps - with the exceptions the properties name.                         *)
THEOREM MigrationsStayExact == MCSpec => []MigrationsAreExact
<1>1. MigrateInv /\ [MCNext]_<<part, vars, publishVars, devVars, writerVars>> => MigrateInv'
    <2>1. ASSUME MigrateInv, UNCHANGED vars PROVE MigrateInv'
        <3>1. TypeOK' /\ Counted' /\ Apart'
            BY <2>1 DEF vars, MigrateInv, TypeOK, Counted, Apart, At, Script, Running, Cmd
        <3>2. BehindIsRecorded' /\ UndoesRecorded' /\ Exact'
            BY <2>1 DEF vars, MigrateInv, BehindIsRecorded, UndoesRecorded, Exact, Upwards,
                        Downwards, At, Cmd, Applied
        <3>3. RecordedIsApplied'
            BY <2>1 DEF vars, MigrateInv, RecordedIsApplied, Applied, Undoing, At, Cmd
        <3> QED  BY <3>1, <3>2, <3>3 DEF MigrateInv
    <2> QED  BY <2>1, MigrateKeeps DEF MCNext
<1>2. MigrateInv => MigrationsAreExact
    <2> SUFFICES ASSUME MigrateInv PROVE MigrationsAreExact
        OBVIOUS
    <2>1. TypeOK /\ Counted /\ Apart /\ BehindIsRecorded /\ Exact
        BY DEF MigrateInv
    <2>2. InOrder
        <3> SUFFICES ASSUME "mixed" \notin trouble, NEW s \in Sessions,
                            session[s].pc = "execute", Cmd(s) = "up",
                            NEW u \in session[s].files, u < At(s), Up[u] > 0
                     PROVE  u \in recorded
            BY DEF InOrder
        <3>1. Upwards(s) /\ session[s].pc \in Midway
            BY DEF Upwards, Midway
        <3>2. u \in Nat
            BY <2>1, <3>1, AtHand, MigrationAssumption
        <3>3. u \notin session[s].todo
            BY <2>1, <3>1, <3>2, AtHand
        <3> QED  BY <2>1, <3>1, <3>3 DEF BehindIsRecorded
    <2>3. RunsOnce
        <3> SUFFICES ASSUME trouble = {}, NEW s \in Sessions, session[s].pc = "execute",
                            Cmd(s) = "up", At(s) \notin Unsafe, Object(s) \in schema
                     PROVE  FALSE
            BY DEF RunsOnce
        <3>1. /\ Upwards(s) /\ At(s) \in session[s].todo /\ At(s) \in Versions
              /\ session[s].k \in 1 .. Up[At(s)] /\ session[s].k \in Nat
            BY <2>1, AtHand DEF Counted, Midway, Upwards
        <3>2. At(s) \notin recorded
            BY <2>1, <3>1 DEF Exact
        <3>3. \A t \in Sessions \ {s} : ~Upwards(t)
            BY <2>1, <3>1 DEF Apart, Running, Upwards, Midway
        <3>4. <<At(s), session[s].k>> \in schema
            BY DEF Object
        <3>5. ~(session[s].k < session[s].k)
            BY <3>1
        <3> QED  BY <2>1, <3>1, <3>2, <3>3, <3>4, <3>5 DEF Exact
    <2> QED  BY <2>1, <2>2, <2>3 DEF MigrateInv, MigrationsAreExact
<1> QED  BY <1>1, <1>2, MigrateStarts, PTL DEF MCSpec

-----------------------------------------------------------------------------------
(* The server. A request is in a layer, and no layer outside of it has refused it; an   *)
(* answer has from the layers it passed what they add.                                  *)

Needed == Server!ToSet(Server!Start) \ Server!Optional

Steps == {Server!Start[i] : i \in 1 .. 8}
Names == {Server!Layered[i] : i \in 1 .. 15}
Answers == [by : Names \union {"nobody"}, status : Nat, html : BOOLEAN, with : Seq(Names),
            cached : BOOLEAN]

Shapes ==
    /\ u1.on \subseteq Server!Options
    /\ u2 \in [at : {"starting", "failed", "serving", "draining", "stopped"}, step : 1 .. 9,
               up : SUBSET Steps]
    /\ u3 \in [kind : Server!Kinds \union {"none"}, at : 0 .. 15, way : {"in", "out"}, dev : BOOLEAN]
    /\ u4 \in Answers

(* What the start set up so far; before it is done there is no request.                 *)
SetUp ==
    /\ u2.at = "starting" =>
           \A i \in 1 .. u2.step - 1 : Server!Start[i] \in u2.up \union Server!Optional
    /\ u2.at \in {"starting", "failed"} => u3.kind = "none" /\ u4 = Server!Silent /\ u3.way = "in"
    /\ u2.at \notin {"starting", "failed"} => Needed \subseteq u2.up

(* The layers outside of i let requests of this kind in.                                *)
Admitted(i, kind) == \A j \in 1 .. i - 1 : ~Server!RefusedBy(Server!Layered[j], kind)

InOrOut ==
    /\ u3.way = "in" => u4 = Server!Silent
    /\ u3.way = "in" /\ u3.kind # "none" => u3.at >= 1 /\ Admitted(u3.at, u3.kind)
    /\ u3.way = "out" /\ u4.by = "routes" /\ u3.kind # "none" => Admitted(15, u3.kind)

(* What an answer has when it is outside of the layer at 12, 11, 10 and 7.              *)
Dressed ==
    u3.way = "out" =>
        /\ u3.at <= 14
        /\ u3.at >= 13 => u4.with = <<>>
        /\ u4.by = "routes" =>
               /\ u3.at < 12 => u4.status # 0
               /\ u3.at < 11 => "request_id" \in Server!ToSet(u4.with)
               /\ u3.at < 10 => "security_headers" \in Server!ToSet(u4.with)
               /\ u3.at < 7 => "cors" \in Server!ToSet(u4.with)
        /\ u4.by # "routes" => u4.status # 0

Tooled == "toolbar" \in Server!ToSet(u4.with) =>
              u3.at < 13 /\ u3.dev /\ ~u4.cached /\ Head(u4.with) = "toolbar"

ServerInv == Shapes /\ SetUp /\ InOrOut /\ Dressed /\ Tooled

(* The layers, each in its place.                                                       *)
LEMMA Places ==
    \A i \in 1 .. 15 : /\ Server!Layered[i] \in Names
                       /\ Server!Layered[i] = "routes" <=> i = 15
                       /\ Server!Layered[i] = "http_cache" <=> i = 14
                       /\ Server!Layered[i] = "toolbar" <=> i = 13
                       /\ Server!Layered[i] = "catch_panic" <=> i = 12
                       /\ Server!Layered[i] = "request_id" <=> i = 11
                       /\ Server!Layered[i] = "security_headers" <=> i = 10
                       /\ Server!Layered[i] = "compression" <=> i = 8
                       /\ Server!Layered[i] = "cors" <=> i = 7
<1>1. \A i \in 1 .. 15 : Server!Layered[i] \in Names
    BY DEF Names
<1>2. \A i \in 1 .. 15 : /\ Server!Layered[i] = "routes" <=> i = 15
                         /\ Server!Layered[i] = "http_cache" <=> i = 14
                         /\ Server!Layered[i] = "toolbar" <=> i = 13
                         /\ Server!Layered[i] = "catch_panic" <=> i = 12
    BY DEF Server!Layered
<1>3. \A i \in 1 .. 15 : /\ Server!Layered[i] = "request_id" <=> i = 11
                         /\ Server!Layered[i] = "security_headers" <=> i = 10
                         /\ Server!Layered[i] = "compression" <=> i = 8
                         /\ Server!Layered[i] = "cors" <=> i = 7
    BY DEF Server!Layered
<1> QED  BY <1>1, <1>2, <1>3

LEMMA Appended ==
    ASSUME NEW S, NEW w \in Seq(S), NEW x \in S
    PROVE  /\ Append(w, x) \in Seq(S)
           /\ Server!ToSet(Append(w, x)) = Server!ToSet(w) \union {x}
           /\ \A y \in Server!ToSet(w) : Head(w) = Head(Append(w, x))
           /\ w = <<>> => Head(Append(w, x)) = x /\ Server!ToSet(w) = {}
<1>1. Append(w, x) \in Seq(S) /\ Len(Append(w, x)) = Len(w) + 1
    OBVIOUS
<1>2. \A i \in 1 .. Len(w) + 1 : Append(w, x)[i] = IF i = Len(w) + 1 THEN x ELSE w[i]
    OBVIOUS
<1>3. Server!ToSet(Append(w, x)) = Server!ToSet(w) \union {x}
    BY <1>1, <1>2 DEF Server!ToSet
<1>4. ASSUME NEW y \in Server!ToSet(w) PROVE Head(w) = Head(Append(w, x))
    <2>1. Len(w) # 0
        BY <1>4 DEF Server!ToSet
    <2> QED  BY <2>1, <1>2
<1>5. w = <<>> => Head(Append(w, x)) = x /\ Server!ToSet(w) = {}
    BY DEF Server!ToSet
<1> QED  BY <1>1, <1>3, <1>4, <1>5

LEMMA ServerStarts == Server!Init => ServerInv
<1> SUFFICES ASSUME Server!Init PROVE ServerInv
    OBVIOUS
<1>1. u4 = Server!Silent /\ Server!Silent \in Answers
    BY DEF Server!Init, Server!Silent, Answers
<1>2. Shapes /\ SetUp
    BY <1>1 DEF Server!Init, Shapes, SetUp
<1>3. u4.with = <<>> /\ Server!ToSet(<<>>) = {}
    BY <1>1 DEF Server!Silent, Server!ToSet
<1>4. InOrOut /\ Dressed /\ Tooled
    BY <1>1, <1>3 DEF Server!Init, InOrOut, Dressed, Tooled
<1> QED  BY <1>2, <1>4 DEF ServerInv

(* The start, the signal, and the requests that come and leave.                         *)
LEMMA StageKeeps ==
    ASSUME ServerInv, \/ Server!Starts \/ Server!Listens \/ Server!Signal \/ Server!Stopped
                      \/ Server!Sent \/ Server!ClientLeaves
                      \/ \E kind \in Server!Kinds, dev \in BOOLEAN : Server!Accept(kind, dev)
    PROVE  ServerInv'
<1>0. Server!Start = <<"hierarchy", "database", "secret", "mailer", "templates", "modules",
                       "bundles", "bind">>
      /\ Len(Server!Start) = 8
    BY DEF Server!Start
<1> USE DEF ServerInv
<1>1. CASE Server!Starts
    <2>1. UNCHANGED <<u1, u3, u4>>
        BY <1>1 DEF Server!Starts
    <2>2. u2.at = "starting" /\ u2.step \in 1 .. 8
        BY <1>0, <1>1 DEF Server!Starts, Shapes
    <2> DEFINE s == Server!Start[u2.step]
    <2>3. s \in Steps
        BY <2>2 DEF Steps
    <2>4. \/ u1.fails # s /\ u2' = [u2 EXCEPT !.step = @ + 1, !.up = @ \union {s}]
          \/ s \in Server!Optional /\ u2' = [u2 EXCEPT !.step = @ + 1]
          \/ u2' = [u2 EXCEPT !.at = "failed"]
        <3> HIDE DEF s
        <3>1. u2' = CASE u1.fails # s -> [u2 EXCEPT !.step = @ + 1, !.up = @ \union {s}]
                      [] u1.fails = s /\ s \in Server!Optional -> [u2 EXCEPT !.step = @ + 1]
                      [] OTHER -> [u2 EXCEPT !.at = "failed"]
            BY <1>1 DEF Server!Starts, s
        <3> QED  BY <3>1, Zenon
    <2> HIDE DEF s
    <2>5. Shapes'
        <3>1. u2' \in [at : {"starting", "failed", "serving", "draining", "stopped"}, step : 1 .. 9,
                       up : SUBSET Steps]
            <4>1. u2.step + 1 \in 1 .. 9 /\ u2.up \union {s} \subseteq Steps
                BY <2>2, <2>3 DEF Shapes
            <4> QED  BY <2>4, <4>1 DEF Shapes
        <3> QED  BY <2>1, <3>1 DEF Shapes
    <2>6. SetUp'
        <3>1. \A i \in 1 .. u2.step - 1 : Server!Start[i] \in u2.up \union Server!Optional
            BY <2>2 DEF SetUp
        <3>2. u3.kind = "none" /\ u4 = Server!Silent /\ u3.way = "in"
            BY <2>2 DEF SetUp
        <3>3. u2'.at \in {"starting", "failed"}
            BY <2>2, <2>4 DEF Shapes
        <3>4. ASSUME u2'.at = "starting", NEW i \in 1 .. u2'.step - 1
              PROVE  Server!Start[i] \in u2'.up \union Server!Optional
            <4>1. u2'.step = u2.step + 1 /\ u2.up \subseteq u2'.up /\ s \in u2'.up \union Server!Optional
                BY <2>2, <2>4, <3>4 DEF Shapes
            <4>2. CASE i = u2.step
                BY <4>1, <4>2 DEF s
            <4>3. CASE i \in 1 .. u2.step - 1
                BY <3>1, <4>1, <4>3
            <4> QED  BY <2>2, <3>4, <4>1, <4>2, <4>3
        <3> QED  BY <2>1, <3>2, <3>3, <3>4 DEF SetUp
    <2>7. InOrOut' /\ Dressed' /\ Tooled'
        BY <2>1 DEF InOrOut, Dressed, Tooled, Admitted, Server!RefusedBy, Server!Present
    <2> QED  BY <2>5, <2>6, <2>7
<1>2. CASE Server!Listens \/ Server!Signal \/ Server!Stopped
    <2>1. /\ UNCHANGED <<u1, u3, u4>>
          /\ \E a \in {"serving", "draining", "stopped"} : u2' = [u2 EXCEPT !.at = a]
          /\ u2.at = "starting" => u2.step = 9
        BY <1>0, <1>2 DEF Server!Listens, Server!Signal, Server!Stopped, Shapes
    <2>2. u2.at # "failed"
        BY <1>2 DEF Server!Listens, Server!Signal, Server!Stopped
    <2>3. Shapes' /\ u2'.at \in {"serving", "draining", "stopped"} /\ u2'.up = u2.up
        BY <2>1 DEF Shapes
    <2>4. Needed \subseteq u2.up
        <3>1. CASE u2.at = "starting"
            <4>1. \A i \in 1 .. 8 : Server!Start[i] \in u2.up \union Server!Optional
                BY <2>1, <3>1 DEF SetUp
            <4>2. Needed \subseteq {Server!Start[i] : i \in 1 .. 8} \ Server!Optional
                BY <1>0 DEF Needed, Server!ToSet
            <4> QED  BY <4>1, <4>2
        <3> QED  BY <2>2, <3>1 DEF SetUp
    <2>5. InOrOut' /\ Dressed' /\ Tooled'
        BY <2>1 DEF InOrOut, Dressed, Tooled, Admitted, Server!RefusedBy, Server!Present
    <2>6. SetUp'
        BY <2>3, <2>4 DEF SetUp, Needed
    <2> QED  BY <2>3, <2>5, <2>6
<1>3. CASE Server!Sent \/ Server!ClientLeaves
    <2>1. UNCHANGED <<u1, u2, u4>> /\ u3' = [u3 EXCEPT !.kind = "none"] /\ u3.way = "out"
        BY <1>3 DEF Server!Sent, Server!ClientLeaves
    <2>2. Shapes' /\ u3'.kind = "none" /\ u3'.at = u3.at /\ u3'.way = "out" /\ u3'.dev = u3.dev
        BY <2>1 DEF Shapes
    <2> QED  BY <2>1, <2>2 DEF SetUp, InOrOut, Dressed, Tooled, Needed
<1>4. ASSUME NEW kind \in Server!Kinds, NEW dev \in BOOLEAN, Server!Accept(kind, dev)
      PROVE  ServerInv'
    <2>1. /\ UNCHANGED <<u1, u2>> /\ u4' = Server!Silent /\ u2.at = "serving"
          /\ u3' = [kind |-> kind, at |-> 1, way |-> "in", dev |-> dev /\ "dev" \in u1.on]
        BY <1>4 DEF Server!Accept
    <2>2. Server!Silent \in Answers
        BY DEF Server!Silent, Answers
    <2>3. kind # "none"
        BY DEF Server!Kinds
    <2>4. u3'.at = 1 /\ u3'.way = "in" /\ (dev /\ "dev" \in u1.on) \in BOOLEAN
        BY <2>1
    <2>5. Shapes'
        BY <2>1, <2>2, <2>3, <2>4 DEF Shapes
    <2>6. u4'.with = <<>> /\ Server!ToSet(<<>>) = {}
        BY <2>1 DEF Server!Silent, Server!ToSet
    <2> QED  BY <2>1, <2>4, <2>5, <2>6 DEF SetUp, InOrOut, Dressed, Tooled, Admitted, Needed
<1> QED  BY <1>1, <1>2, <1>3, <1>4

(* A request goes one layer further in, or is answered where it is.                     *)
LEMMA InwardKeeps ==
    ASSUME ServerInv, Server!Stops \/ Server!Studio \/ Server!Passes \/ Server!Routes
    PROVE  ServerInv'
<1> USE DEF ServerInv
<1>1. /\ u3.way = "in" /\ u3.kind # "none" /\ u4 = Server!Silent /\ u3.at \in 1 .. 15
      /\ Admitted(u3.at, u3.kind)
    <2>1. Server!Inward
        BY DEF Server!Stops, Server!Studio, Server!Passes, Server!Routes
    <2> QED  BY <2>1 DEF Server!Inward, InOrOut, Shapes
<1>2. u2.at \notin {"starting", "failed"} /\ Needed \subseteq u2.up
    BY <1>1 DEF SetUp
<1>3. Server!ToSet(<<>>) = {}
    BY DEF Server!ToSet
<1>4. ASSUME Server!Passes PROVE ServerInv'
    <2>1. /\ UNCHANGED <<u1, u2, u4>> /\ u3' = [u3 EXCEPT !.at = @ + 1]
          /\ u3.at # 15 /\ ~Server!RefusedBy(Server!Layered[u3.at], u3.kind)
        BY <1>1, <1>4, Places DEF Server!Passes, Server!Here, Server!Refuses
    <2>2. /\ Shapes' /\ u3'.at = u3.at + 1 /\ u3'.kind = u3.kind /\ u3'.way = "in"
        BY <1>1, <2>1 DEF Shapes
    <2>3. Admitted(u3.at + 1, u3.kind)
        BY <1>1, <2>1 DEF Admitted
    <2>4. InOrOut'
        BY <1>1, <2>1, <2>2, <2>3 DEF InOrOut, Admitted, Server!RefusedBy, Server!Present
    <2>5. u4'.with = <<>>
        BY <1>1, <2>1 DEF Server!Silent
    <2>6. Dressed' /\ Tooled'
        BY <1>3, <2>2, <2>5 DEF Dressed, Tooled
    <2> QED  BY <1>2, <2>1, <2>2, <2>4, <2>6 DEF SetUp
<1>5. ASSUME NEW status \in Nat, NEW html \in BOOLEAN, Server!Answered(status, html),
             status = 0 => u3.at = 15
      PROVE  ServerInv'
    <2>1. /\ UNCHANGED <<u1, u2>> /\ u3' = [u3 EXCEPT !.way = "out", !.at = @ - 1]
          /\ u4' = [by |-> Server!Layered[u3.at], status |-> status, html |-> html,
                    with |-> <<>>, cached |-> FALSE]
        BY <1>5 DEF Server!Answered, Server!Here
    <2>2. /\ u3'.at = u3.at - 1 /\ u3'.way = "out" /\ u3'.kind = u3.kind
          /\ u3' \in [kind : Server!Kinds \union {"none"}, at : 0 .. 15, way : {"in", "out"}, dev : BOOLEAN]
        <3>1. u3.at - 1 \in 0 .. 15
            BY <1>1
        <3> QED  BY <2>1, <3>1 DEF Shapes
    <2>3. Server!Layered[u3.at] \in Names /\ <<>> \in Seq(Names)
        BY <1>1, Places
    <2>4. Shapes'
        BY <2>1, <2>2, <2>3 DEF Shapes, Answers
    <2>5. u4'.by = "routes" => u3.at = 15
        BY <1>1, <2>1, Places
    <2>6. InOrOut'
        BY <1>1, <2>1, <2>2, <2>5 DEF InOrOut, Admitted, Server!RefusedBy, Server!Present
    <2>7. u4'.by # "routes" => u4'.status # 0
        BY <1>1, <1>5, <2>1, Places
    <2>8. Dressed' /\ Tooled'
        BY <1>1, <1>3, <2>1, <2>2, <2>5, <2>7 DEF Dressed, Tooled
    <2> QED  BY <1>2, <2>1, <2>4, <2>6, <2>8 DEF SetUp
<1>6. CASE Server!Stops
    <2>1. Server!Status(u3.kind) \in Nat \ {0}
        BY DEF Server!Status, Server!Here
    <2> QED  BY <1>5, <1>6, <2>1 DEF Server!Stops
<1>7. CASE Server!Studio
    <2>1. Server!Answered(200, TRUE)
        BY <1>7, Zenon DEF Server!Studio
    <2>2. 200 \in Nat /\ 200 # 0 /\ TRUE \in BOOLEAN
        OBVIOUS
    <2> QED  BY <1>5, <2>1, <2>2, Zenon
<1>8. CASE Server!Routes
    <2>1. u3.at = 15
        BY <1>1, <1>8, Places DEF Server!Routes, Server!Here
    <2>2. \/ Server!Answered(200, TRUE) \/ Server!Answered(0, FALSE) \/ Server!Answered(404, FALSE)
          \/ Server!Answered(502, FALSE) \/ Server!Answered(200, FALSE)
        BY <1>8, Zenon DEF Server!Routes
    <2>3. 200 \in Nat /\ 0 \in Nat /\ 404 \in Nat /\ 502 \in Nat
        OBVIOUS
    <2>4. TRUE \in BOOLEAN /\ FALSE \in BOOLEAN
        OBVIOUS
    <2>5. ASSUME NEW status \in Nat, NEW html \in BOOLEAN, Server!Answered(status, html)
          PROVE  ServerInv'
        BY <1>5, <2>1, <2>5, Zenon
    <2> QED  BY <2>2, <2>3, <2>4, <2>5, Zenon
<1> QED  BY <1>4, <1>6, <1>7, <1>8

(* An answer goes one layer further out. *)
LEMMA OutwardKeeps == ASSUME ServerInv, Server!Outward PROVE ServerInv'
<1> USE DEF ServerInv
<1> DEFINE at == u3.at  here == Server!Layered[at]
           marked == u4.status # 0 /\ (here \in Server!Marking \/ Server!Toolbar)
           new == IF marked THEN Append(u4.with, here) ELSE u4.with
<1>1. /\ u3.way = "out" /\ at \in 1 .. 14 /\ UNCHANGED <<u1, u2>>
      /\ u3' = [u3 EXCEPT !.at = @ - 1] /\ u4' = Server!Adds
    BY DEF Server!Outward, Dressed, Shapes
<1>2. u2.at \notin {"starting", "failed"} /\ Needed \subseteq u2.up
    BY <1>1 DEF SetUp
<1>3. /\ u3'.at = at - 1 /\ u3'.way = "out" /\ u3'.kind = u3.kind /\ u3'.dev = u3.dev
      /\ u3' \in [kind : Server!Kinds \union {"none"}, at : 0 .. 15, way : {"in", "out"}, dev : BOOLEAN]
    <2>1. at - 1 \in 0 .. 15
        BY <1>1
    <2> QED  BY <1>1, <2>1 DEF Shapes
<1>4. u4 \in Answers /\ u4.with \in Seq(Names) /\ here \in Names
    BY <1>1, Places DEF Shapes, Answers
<1>5. /\ u4'.by = u4.by /\ u4'.with = new
      /\ u4'.status = IF u4.status = 0 /\ here = "catch_panic" THEN 500 ELSE u4.status
      /\ u4'.cached = (~Server!Toolbar /\ (u4.cached \/ Server!Cacheable))
      /\ u4' \in [by : Names \union {"nobody"}, status : {u4'.status}, html : BOOLEAN, with : {new},
                  cached : BOOLEAN]
    <2> DEFINE status == IF u4.status = 0 /\ here = "catch_panic" THEN 500 ELSE u4.status
               cached == ~Server!Toolbar /\ (u4.cached \/ Server!Cacheable)
    <2>1. u4' = [u4 EXCEPT !.status = status, !.with = new, !.cached = cached]
        BY <1>1 DEF Server!Adds, Server!Panicked, Server!Here
    <2>2. cached \in BOOLEAN
        OBVIOUS
    <2> HIDE DEF here, new, status, cached
    <2>3. /\ u4'.by = u4.by /\ u4'.with = new /\ u4'.status = status /\ u4'.cached = cached
          /\ u4' \in [by : Names \union {"nobody"}, status : {u4'.status}, html : BOOLEAN,
                      with : {new}, cached : BOOLEAN]
        BY <1>4, <2>1, <2>2 DEF Answers
    <2> QED  BY <2>3 DEF status, cached
<1>6. /\ here = "catch_panic" <=> at = 12
      /\ here = "request_id" <=> at = 11
      /\ here = "security_headers" <=> at = 10
      /\ here = "cors" <=> at = 7
      /\ here = "toolbar" <=> at = 13
      /\ here = "http_cache" <=> at = 14
      /\ here \in Server!Marking <=> at \in {7, 8, 10, 11}
    BY <1>1, Places DEF Server!Marking
<1>7. /\ Server!Toolbar => at = 13 /\ u3.dev
      /\ Server!Cacheable => at = 14
    BY <1>6 DEF Server!Toolbar, Server!Cacheable, Server!Works, Server!Here
<1>8. /\ new \in Seq(Names)
      /\ Server!ToSet(u4.with) \subseteq Server!ToSet(new)
      /\ marked => Server!ToSet(new) = Server!ToSet(u4.with) \union {here}
      /\ ~marked => new = u4.with
      /\ \A y \in Server!ToSet(u4.with) : Head(new) = Head(u4.with)
      /\ marked /\ u4.with = <<>> => Head(new) = here
      /\ u4.with = <<>> => Server!ToSet(u4.with) = {}
    <2> HIDE DEF here, marked
    <2> QED  BY <1>4, Appended
<1> HIDE DEF new
<1>9. Shapes'
    <2>1. u4'.status \in Nat
        BY <1>4, <1>5 DEF Answers
    <2>2. u4' \in Answers
        BY <1>5, <1>8, <2>1 DEF Answers
    <2> QED  BY <1>1, <1>3, <2>2 DEF Shapes
<1>10. SetUp'
    BY <1>1, <1>2 DEF SetUp
<1>11. InOrOut'
    BY <1>1, <1>3, <1>5 DEF InOrOut, Admitted, Server!RefusedBy, Server!Present
<1> HIDE DEF here
<1>12. Dressed'
    <2>1. u4.by = "routes" => u4'.by = "routes" /\ (at - 1 < 12 => u4'.status # 0)
        BY <1>1, <1>5, <1>6 DEF Dressed
    <2>2. u4.by # "routes" => u4'.status # 0
        BY <1>1, <1>5, <1>6 DEF Dressed
    <2>3. at - 1 >= 13 => u4'.with = <<>>
        BY <1>1, <1>5, <1>6, <1>7, <1>8 DEF Dressed
    <2>4. ASSUME u4.by = "routes"
          PROVE  /\ at - 1 < 11 => "request_id" \in Server!ToSet(new)
                 /\ at - 1 < 10 => "security_headers" \in Server!ToSet(new)
                 /\ at - 1 < 7 => "cors" \in Server!ToSet(new)
        <3>1. at <= 11 => u4.status # 0
            BY <1>1, <2>4 DEF Dressed
        <3>2. at \in {7, 10, 11} => here \in Server!ToSet(new)
            BY <1>6, <1>8, <3>1
        <3> QED  BY <1>1, <1>6, <1>8, <2>4, <3>2 DEF Dressed
    <2> QED  BY <1>1, <1>3, <1>5, <2>1, <2>2, <2>3, <2>4 DEF Dressed
<1>13. Tooled'
    <2> SUFFICES ASSUME "toolbar" \in Server!ToSet(new)
                 PROVE  u3'.at < 13 /\ u3'.dev /\ ~u4'.cached /\ Head(new) = "toolbar"
        BY <1>5 DEF Tooled
    <2>1. CASE "toolbar" \in Server!ToSet(u4.with)
        BY <1>1, <1>3, <1>5, <1>7, <1>8, <2>1 DEF Tooled
    <2>2. CASE "toolbar" \notin Server!ToSet(u4.with)
        <3>1. marked /\ here = "toolbar"
            BY <1>8, <2>2
        <3>2. at = 13 /\ Server!Toolbar /\ u4.with = <<>>
            BY <1>1, <1>6, <3>1 DEF Dressed
        <3> QED  BY <1>3, <1>5, <1>7, <1>8, <3>1, <3>2
    <2> QED  BY <2>1, <2>2
<1> QED  BY <1>9, <1>10, <1>11, <1>12, <1>13

(* Whatever a handler does, the client gets a whole answer that passed the gates which   *)
(* are configured; the token of Studio goes into no other page; and only a server that   *)
(* was set up takes requests: for any configuration and sequence of requests.           *)
THEOREM AnswersStayWhole == MCSpec => []AnswersAreWhole
<1> DEFINE Inv == part = "server" => ServerInv
<1>1. MCInit => Inv
    BY ServerStarts DEF MCInit
<1>2. Inv /\ [MCNext]_<<part, vars, publishVars, devVars, writerVars>> => Inv'
    <2>1. ASSUME ServerInv, UNCHANGED writerVars PROVE ServerInv'
        BY <2>1 DEF writerVars, ServerInv, Shapes, SetUp, InOrOut, Dressed, Tooled, Admitted,
                    Server!RefusedBy, Server!Present
    <2>2. ASSUME ServerInv, Server!Next PROVE ServerInv'
        BY <2>2, StageKeeps, InwardKeeps, OutwardKeeps DEF Server!Next, Server!Handles
    <2> QED  BY <2>1, <2>2 DEF MCNext
<1>3. Inv => AnswersAreWhole
    <2> SUFFICES ASSUME ServerInv PROVE Server!TypeOK /\ Server!AnswersAreWhole
        BY DEF AnswersAreWhole
    <2> USE DEF ServerInv
    <2>1. Server!TypeOK
        <3>1. Len(Server!Layered) = 15
            BY DEF Server!Layered
        <3> QED  BY <3>1 DEF Shapes, Server!TypeOK
    <2>2. ASSUME Server!Outside
          PROVE  /\ Server!ToSet(Server!Start) \ Server!Optional \subseteq u2.up
                 /\ u4.by = "routes" =>
                        /\ u4.status # 0
                        /\ Server!Complete(u4) /\ "cors" \in Server!ToSet(u4.with)
                        /\ u3.kind \in DOMAIN Server!Gate => Server!Gate[u3.kind] \notin Server!Present
                 /\ "toolbar" \in Server!ToSet(u4.with) =>
                        u3.dev /\ ~u4.cached /\ Head(u4.with) = "toolbar"
        <3>1. u3.way = "out" /\ u3.at = 0
            BY <2>2 DEF Server!Outside
        <3>2. Needed \subseteq u2.up
            BY <3>1 DEF SetUp
        <3>3. u4.by = "routes" => /\ u4.status # 0
                                  /\ Server!Complete(u4) /\ "cors" \in Server!ToSet(u4.with)
            BY <3>1 DEF Dressed, Server!Complete
        <3>4. ASSUME u4.by = "routes", u3.kind \in DOMAIN Server!Gate
              PROVE  Server!Gate[u3.kind] \notin Server!Present
            <4>1. u3.kind # "none"
                BY <3>4 DEF Server!Gate
            <4>2. \A j \in 1 .. 14 : ~Server!RefusedBy(Server!Layered[j], u3.kind)
                BY <3>1, <3>4, <4>1 DEF InOrOut, Admitted
            <4>3. PICK j \in 1 .. 14 : Server!Layered[j] = Server!Gate[u3.kind]
                BY <3>4 DEF Server!Gate, Server!Layered
            <4>4. /\ Server!Gate[u3.kind] \in DOMAIN Server!Refusals
                  /\ u3.kind \in Server!Refusals[Server!Gate[u3.kind]]
                BY <3>4 DEF Server!Gate, Server!Refusals
            <4> QED  BY <4>2, <4>3, <4>4 DEF Server!RefusedBy
        <3> QED  BY <3>2, <3>3, <3>4 DEF Needed, Tooled
    <2> QED  BY <2>1, <2>2 DEF Server!AnswersAreWhole
<1> HIDE DEF Inv
<1> QED  BY <1>1, <1>2, <1>3, PTL DEF MCSpec
==================================================================================
