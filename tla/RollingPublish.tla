------------------------------ MODULE RollingPublish ------------------------------
(* karbon deploy publish: deploy_publish, publish_to, restart_manager and wait_healthy *)
(* of karbon-cli/src/commands/deploy.rs. One operator publishes a build to the targets *)
(* of karbon.toml, one after the other, any number of times; every command on a target *)
(* can fail, and every failure that is seen ends the publish where it is.              *)
EXTENDS Naturals, FiniteSets

CONSTANTS Targets,   \* number of targets; they are published in the order 1 .. Targets
          Builds,    \* the builds that are published over time
          Broken,    \* builds that never answer their health_url
          HealthUrl, \* whether health_url is set
          NoBuild

PublishAssumption == /\ Targets \in Nat \ {0}
                     /\ Broken \subseteq Builds
                     /\ HealthUrl \in BOOLEAN
                     /\ NoBuild \notin Builds

Hosts == 1 .. Targets

VARIABLES tree,     \* per target: the build in deploy.path and whether its packages are
                    \* installed, or Mixed
          process,  \* per target: the build that runs, and how it is doing
          publish,  \* the publish under way: its stage, its build, the target at hand
          touched,  \* history: the targets the last publish reached, the one at hand included
          latest,   \* history: the build it published
          swallowed \* history: the targets on which its npm install failed

vars == <<tree, process, publish, touched, latest, swallowed>>

Mixed == [mixed |-> TRUE]

Empty == [build |-> NoBuild, installed |-> FALSE]

Tree == {Mixed} \union [build : Builds \union {NoBuild}, installed : BOOLEAN]

Status == {"down", "starting", "up", "respawning"}

NotPublishing == [stage |-> "idle"]

Init == /\ tree = [h \in Hosts |-> Empty]
        /\ process = [h \in Hosts |-> [tree |-> Empty, status |-> "down"]]
        /\ publish = NotPublishing
        /\ touched = {}
        /\ latest = NoBuild /\ swallowed = {}

In(stage) == publish.stage = stage

Stage(stage) == publish' = [publish EXCEPT !.stage = stage]

(* On to the target: it is touched from here on. *)
Target(h, b) == /\ publish' = [stage |-> "sync", build |-> b, at |-> h]
                /\ touched' = IF h = 1 THEN {1} ELSE touched \union {h}

(* deploy_publish, with its configuration valid and the artifacts built. *)
Publish(b) == /\ In("idle")
              /\ Target(1, b)
              /\ latest' = b /\ swallowed' = {}
              /\ UNCHANGED <<tree, process>>

(* mkdir, the rsyncs, npm install, chown. npm_install_cmd pipes npm into tail, and the *)
(* shell reports how tail ended: npm may have failed.                                  *)
Sync == /\ In("sync")
        /\ \E installed \in BOOLEAN :
               /\ tree' = [tree EXCEPT ![publish.at] = [build |-> publish.build, installed |-> installed]]
               /\ swallowed' = IF installed THEN swallowed ELSE swallowed \union {publish.at}
        /\ Stage("stop")
        /\ UNCHANGED <<process, touched, latest>>

(* The process manager stops what runs (pm2 stop and delete, or systemctl restart)... *)
StopProcess == /\ In("stop")
               /\ process' = [process EXCEPT ![publish.at].status = "down"]
               /\ Stage("start")
               /\ UNCHANGED <<tree, touched, latest, swallowed>>

(* The target is done: on to the next one, or the publish is. *)
TargetDone == IF publish.at < Targets
              THEN Target(publish.at + 1, publish.build)
              ELSE publish' = NotPublishing /\ UNCHANGED touched

Restarted == [process EXCEPT ![publish.at] = [tree |-> tree[publish.at], status |-> "starting"]]

Start_NoWait == /\ In("start")
                /\ process' = Restarted
                /\ TargetDone
                /\ UNCHANGED <<tree, latest, swallowed>>

(* ... and starts what is in deploy.path now, without waiting for it to answer. *)
Start == /\ In("start")
         /\ process' = Restarted
         /\ IF HealthUrl THEN Stage("health") /\ UNCHANGED touched ELSE TargetDone
         /\ UNCHANGED <<tree, latest, swallowed>>

(* wait_healthy: the probe succeeds ... *)
Healthy == /\ In("health")
           /\ process[publish.at].status = "up"
           /\ TargetDone
           /\ UNCHANGED <<tree, process, latest, swallowed>>

Fails_GoesOn == /\ publish.stage \in {"sync", "stop", "start"}
                /\ TargetDone
                /\ UNCHANGED <<tree, process, latest, swallowed>>

(* A command fails, or health_timeout passes while the target does not answer or the   *)
(* probe does not reach it: the publish ends here. rsync leaves what it had copied.    *)
Fails == /\ ~In("idle")
         /\ publish' = NotPublishing
         /\ tree' \in IF In("sync") THEN {tree, [tree EXCEPT ![publish.at] = Mixed]} ELSE {tree}
         /\ UNCHANGED <<process, touched, latest, swallowed>>

(* The process on a target starts answering, if it is not a broken build: the backend,  *)
(* to which health_url belongs, does so without the frontend's packages.               *)
Answers(h) == /\ process[h].status \in {"starting", "respawning"}
              /\ process[h].tree \notin [build : Broken, installed : BOOLEAN]
              /\ process' = [process EXCEPT ![h].status = "up"]
              /\ UNCHANGED <<tree, publish, touched, latest, swallowed>>

(* It dies, and the process manager starts what is in deploy.path now. *)
Respawns(h) == /\ process[h].status = "up"
               /\ process' = [process EXCEPT ![h] = [tree |-> tree[h], status |-> "respawning"]]
               /\ UNCHANGED <<tree, publish, touched, latest, swallowed>>

Next == \/ \E b \in Builds : Publish(b)
        \/ Sync \/ StopProcess \/ Start \/ Healthy \/ Fails
        \/ \E h \in Hosts : Answers(h) \/ Respawns(h)

Spec == Init /\ [][Next]_vars

-----------------------------------------------------------------------------------
(* Properties. *)

TypeOK == /\ tree \in [Hosts -> Tree]
          /\ process \in [Hosts -> [tree : Tree, status : Status]]
          /\ publish \in {NotPublishing} \union
                 [stage : {"sync", "stop", "start", "health"}, build : Builds, at : Hosts]
          /\ touched \subseteq Hosts
          /\ latest \in Builds \union {NoBuild}
          /\ swallowed \subseteq Hosts

(* The targets of the last publish that are behind it. *)
Done == {h \in touched : \E g \in touched : h < g}

(* "the next target is never restarted while this one is still down" (health_url):    *)
(* of all targets a publish reached, only the last one can be down, or not answering   *)
(* yet, because of it - wherever it stopped.                                           *)
OneTargetDown ==
    HealthUrl => \A h \in Done : process[h].status \notin {"down", "starting"}

(* "A failure stops here: the targets already done run the new version": no target is  *)
(* reached before all earlier ones have the new build and run it, and a process that    *)
(* its manager restarts later on cannot fall back to another one. The packages of the  *)
(* frontend are there too, with the exception of the targets on which npm failed: that  *)
(* failure stops nothing.                                                              *)
DoneRunTheBuild ==
    \A h \in Done : /\ tree[h] = [build |-> latest, installed |-> h \notin swallowed]
                    /\ process[h].tree = tree[h]
==================================================================================
