------------------------------- MODULE MCOperations -------------------------------
(* What works on a project and on its database, for TLC: the commands migrate, deploy    *)
(* publish, dev, generate and migrate diff, the server that they start, and the builders, *)
(* lists, repositories and derives of database access. They share no state here, so one  *)
(* run checks them side by side instead of multiplying their states: "part" says which   *)
(* of them the behaviour is about, the others stay put. The variables u1 to u6 are those *)
(* from generate on.                                                                     *)
EXTENDS SchemaMigrations, Sequences, TLC

CONSTANTS Targets, Builds, Broken, HealthUrl,  \* of RollingPublish
          Ids, Owners,                         \* of CrudRepository
          Entities, MaxCommands                \* of ProjectGenerator

CONSTANTS m1, m2, f1, f2

VARIABLES part,
          tree, process, publish, touched, latest, swallowed,
          source, last, pc, binary, backend, frontend, running, first,
          u1, u2, u3, u4, u5, u6

publishVars == <<tree, process, publish, touched, latest, swallowed>>
devVars == <<source, last, pc, binary, backend, frontend, running, first>>
writerVars == <<u1, u2, u3, u4, u5, u6>>

Publishing == INSTANCE RollingPublish WITH NoBuild <- NoSection

Developing == INSTANCE DevSupervisor WITH MaxSaves <- 3, BadSaves <- {2}

Generating == INSTANCE ProjectGenerator
                  WITH project <- u1, marked <- u2, command <- u3, history <- u4

Diffing == INSTANCE SchemaDiff
               WITH driver <- u1, entities <- u2, database <- u3, files <- u4, applied <- u5,
                    past <- u6, MaxEdits <- 2, MaxDiffs <- 2

Server == INSTANCE Application WITH setup <- u1, stage <- u2, request <- u3, response <- u4

Builders == INSTANCE SqlBuilders WITH builder <- u1, asked <- u2, sent <- u3,
                                      Values <- {1, 2}, MaxCalls <- 3

Pages == INSTANCE PaginatedQuery WITH
             table <- u1, list <- u2, step <- u3, seen <- u4, writes <- u5,
             Ids <- 1 .. 3, Liked <- {1, 3}, MaxPerPage <- 2, Width <- 8,
             Tables <- {{}, {1}, 1 .. 3}, MaxWrites <- 1

Repository == INSTANCE CrudRepository WITH rows <- u1, entity <- u2, live <- u3, read <- u4

Macros == INSTANCE EntityMacros WITH struct <- u1, value <- u2, outcome <- u3,
                                     Names <- {f1, f2}, MaxFields <- 2

ASSUME InstanceAssumptions == /\ Publishing!PublishAssumption /\ Developing!DevAssumption
                              /\ Generating!GeneratorAssumption /\ Diffing!DiffAssumption
                              /\ Builders!BuildersAssumption /\ Pages!PagesAssumption
                              /\ Repository!RepositoryAssumption /\ Macros!EntityAssumption

(* Four files: two statements, none, one in a file whose name cannot be recorded, one. *)
MCSessions == {m1, m2}
MCUp == <<2, 0, 1, 1>>
MCDown == <<2, NoSection, 1, NoSection>>

Unused == u1 = 0 /\ u2 = 0 /\ u3 = 0 /\ u4 = 0

MCInit == /\ \/ part \in {"migrate", "publish", "dev"} /\ Unused /\ u5 = 0 /\ u6 = 0
             \/ part = "generate" /\ Generating!Init /\ u5 = 0 /\ u6 = 0
             \/ part = "diff" /\ Diffing!Init
             \/ part = "server" /\ Server!Init /\ u5 = 0 /\ u6 = 0
             \/ part = "builders" /\ Builders!Init /\ u4 = 0 /\ u5 = 0 /\ u6 = 0
             \/ part = "pages" /\ Pages!Init /\ u6 = 0
             \/ part = "repository" /\ Repository!Init /\ u5 = 0 /\ u6 = 0
             \/ part = "macros" /\ Macros!Init /\ u4 = 0 /\ u5 = 0 /\ u6 = 0
          /\ Init
          /\ part # "migrate" => dir = Versions
          /\ Publishing!Init
          /\ Developing!Init

MCNext == /\ UNCHANGED part
          /\ \/ /\ part = "migrate"
                /\ Next
                /\ UNCHANGED <<publishVars, devVars, writerVars>>
             \/ /\ part = "publish"
                /\ Publishing!Next
                /\ UNCHANGED <<vars, devVars, writerVars>>
             \/ /\ part = "dev"
                /\ Developing!Next
                /\ UNCHANGED <<vars, publishVars, writerVars>>
             \/ /\ UNCHANGED <<vars, publishVars, devVars>>
                /\ \/ part = "generate" /\ Generating!Next /\ UNCHANGED <<u5, u6>>
                   \/ part = "diff" /\ Diffing!Next
                   \/ part = "server" /\ Server!Next /\ UNCHANGED <<u5, u6>>
                   \/ part = "builders" /\ Builders!Next /\ UNCHANGED <<u4, u5, u6>>
                   \/ part = "pages" /\ Pages!Next /\ UNCHANGED u6
                   \/ part = "repository" /\ Repository!Next /\ UNCHANGED <<u5, u6>>
                   \/ part = "macros" /\ Macros!Next /\ UNCHANGED <<u4, u5, u6>>

MCSpec == /\ MCInit
          /\ [][MCNext]_<<part, vars, publishVars, devVars, writerVars>>
          /\ WF_devVars(part = "dev" /\ Developing!Supervise)

-----------------------------------------------------------------------------------

(* "each file runs exactly once", in order, and what is recorded is applied             *)
(* (SchemaMigrations).                                                                  *)
MigrationsAreExact == TypeOK /\ RecordedIsApplied /\ InOrder /\ RunsOnce

(* "the next target is never restarted while this one is still down", and "the targets  *)
(* already done run the new version" (RollingPublish).                                  *)
PublishRolls == Publishing!TypeOK /\ Publishing!OneTargetDown /\ Publishing!DoneRunTheBuild

(* "backend recompiles on save" (DevSupervisor). *)
SavesAreBuilt == []Developing!TypeOK /\ Developing!SavesAreBuilt

(* A generated project builds, also after commands that did not get to their end, and  *)
(* what a command did well is wired, once, with nothing lost that was there             *)
(* (ProjectGenerator).                                                                  *)
ProjectIsWhole ==
    part = "generate" => /\ Generating!TypeOK /\ Generating!NothingDangles
                         /\ Generating!WiredOnce /\ Generating!DoneIsWired
                         /\ Generating!WhatIsThereStays

(* "The entities are the source of truth": applied diffs make the tables what the       *)
(* entities say, and rollbacks undo them (SchemaDiff).                                  *)
SchemaFollowsEntities == part = "diff" => /\ Diffing!TypeOK /\ Diffing!DatabaseFollows
                                          /\ Diffing!RollbackRestores
                                          /\ Diffing!NumbersAreNew

(* What leaves the routes leaves through all the layers around them: http/app.rs.       *)
AnswersAreWhole == part = "server" => Server!TypeOK /\ Server!AnswersAreWhole

(* A builder binds each value where its caller put it, and none changes all rows of a  *)
(* table unless its caller said so: db/builder.rs, db/select_builder.rs.               *)
BuildersAreSound ==
    part = "builders" => Builders!TypeOK /\ Builders!BindsMatch /\ Builders!NoneByAccident

(* A list and its count have one condition, and its pages cover the table:             *)
(* db/paginated_query.rs, db/pagination.rs.                                            *)
ListsAreSound ==
    part = "pages" => Pages!TypeOK /\ Pages!CountsWhatItLists /\ Pages!PagesCoverTheTable

(* No reading method gives a deleted row, and none leaves another out:                 *)
(* db/repository.rs.                                                                   *)
DeletedIsUnseen == part = "repository" => Repository!TypeOK /\ Repository!DeletedIsUnseen

(* Each column gets the value of its own field: derive(Insertable), derive(Updatable). *)
ColumnsGetTheirFields == part = "macros" => Macros!TypeOK /\ Macros!ColumnsGetTheirFields
==================================================================================
