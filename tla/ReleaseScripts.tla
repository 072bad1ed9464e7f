---------------------------- MODULE ReleaseScripts ----------------------------
(***************************************************************************)
(* The scripts of backend/scripts that prepare a release, one run after    *)
(* another: configure-smtp saves a provider, sends a test and only then    *)
(* requires verified addresses; deploy is gated for production, posts a    *)
(* deployment and polls it; migrate takes a lock, reads the version of the *)
(* schema and brings it up, with two operators at once.                    *)
(***************************************************************************)
EXTENDS Naturals

CONSTANTS Migrators,  \* operators who run migrate
          Polls,      \* bound: status requests within the 150 seconds
          Unlocked

ASSUME ReleaseAssumption == Polls \in Nat /\ Unlocked \notin Migrators

VARIABLES mail,        \* [saved |-> the provider, required |-> verification is required]
          smtp,        \* the run of configure-smtp: its step, recipient, accepted test, and
                       \* whether another provider was saved since (ghost)
          ready,       \* accountReleaseReady of neon.json
          deployment,  \* the current deployment of each target
          deploy,      \* the run of deploy: target, step, polls, report
          schema,      \* [version, role], as committed
          lock,        \* who holds the advisory lock of the migrations
          migrator     \* each migrate: its step, and the version it read

smtpVars == <<mail, smtp>>
deployVars == <<ready, deployment, deploy>>
schemaVars == <<schema, lock, migrator>>
releaseVars == <<smtpVars, deployVars, schemaVars>>

Targets == {"staging", "production"}
Providers == {"none", "shared", "working", "failing"}
NoRun == [step |-> "idle", recipient |-> FALSE, accepted |-> "none", overtaken |-> FALSE]
NoDeploy == [step |-> "idle", target |-> "staging", polls |-> 0, report |-> "none"]

ReleaseTypeOK ==
  /\ mail \in [saved : Providers, required : BOOLEAN]
  /\ smtp \in [step : {"idle", "save", "check", "test", "require"}, recipient : BOOLEAN,
               accepted : Providers, overtaken : BOOLEAN]
  /\ ready \in BOOLEAN
  /\ deployment \in [Targets -> {"none", "pending", "completed", "failed"}]
  /\ deploy \in [step : {"idle", "post", "poll"}, target : Targets, polls : 0 .. Polls,
                 report : {"none", "gated", "error", "failed", "deployed", "pending"}]
  /\ schema \in [version : 0 .. 1, role : BOOLEAN]
  /\ lock \in Migrators \cup {Unlocked}
  /\ migrator \in [Migrators -> [step : {"new", "lock", "read", "apply", "commit", "current", "failed"},
                                 read : 0 .. 1]]

ReleaseInit ==
  /\ mail = [saved |-> "none", required |-> FALSE]
  /\ smtp = NoRun
  /\ ready = FALSE
  /\ deployment = [t \in Targets |-> "none"]
  /\ deploy = NoDeploy
  /\ schema = [version |-> 0, role |-> TRUE]
  /\ lock = Unlocked
  /\ migrator = [m \in Migrators |-> [step |-> "new", read |-> 0]]

-------------------------------------------------------------------------------

\* Mutant: a missing recipient is found out only at the test.
Smtp_RecipientLater(supplied, recipient) ==
  /\ smtp.step = "idle"
  /\ smtp' = [NoRun EXCEPT !.step = IF supplied THEN "save" ELSE "check", !.recipient = recipient]
  /\ UNCHANGED <<mail, deployVars, schemaVars>>

\* configure-smtp starts: with complete new settings and a recipient, or with none.
Smtp(supplied, recipient) ==
  /\ smtp.step = "idle"
  /\ supplied => recipient
  /\ smtp' = [NoRun EXCEPT !.step = IF supplied THEN "save" ELSE "check", !.recipient = recipient]
  /\ UNCHANGED <<mail, deployVars, schemaVars>>

\* A request fails, before or (for the PATCH) after it took effect.
SmtpFails ==
  /\ smtp.step # "idle"
  /\ smtp' = NoRun
  /\ UNCHANGED <<mail, deployVars, schemaVars>>

\* The settings of the environment are saved; whether they work nobody knows yet.
SaveProvider ==
  /\ smtp.step = "save"
  /\ \E p \in {"working", "failing"} : mail' = [mail EXCEPT !.saved = p]
  /\ smtp' \in {[smtp EXCEPT !.step = "test"], NoRun}
  /\ UNCHANGED <<deployVars, schemaVars>>

\* Without settings the saved provider must be the application's own.
CheckProvider ==
  /\ smtp.step = "check"
  /\ smtp' = IF mail.saved \in {"working", "failing"} /\ smtp.recipient
               THEN [smtp EXCEPT !.step = "test"] ELSE NoRun
  /\ UNCHANGED <<mail, deployVars, schemaVars>>

\* Mutant: any answer to the test is taken for an acceptance.
SendTest_AnyAnswer ==
  /\ smtp.step = "test"
  /\ smtp' = [smtp EXCEPT !.step = "require"]
  /\ UNCHANGED <<mail, deployVars, schemaVars>>

SendTest ==
  /\ smtp.step = "test"
  /\ smtp' = IF mail.saved = "working"
               THEN [smtp EXCEPT !.step = "require", !.accepted = mail.saved] ELSE NoRun
  /\ UNCHANGED <<mail, deployVars, schemaVars>>

RequireVerification ==
  /\ smtp.step = "require"
  /\ mail' = [mail EXCEPT !.required = TRUE]
  /\ smtp' = NoRun
  /\ UNCHANGED <<deployVars, schemaVars>>

\* At any time another provider is saved at the console, or the requirement is dropped.
ConsoleMail ==
  /\ mail' \in [saved : {"shared", "working", "failing"}, required : {FALSE, mail.required}]
  /\ smtp' = IF smtp.step = "require" THEN [smtp EXCEPT !.overtaken = TRUE] ELSE smtp
  /\ UNCHANGED <<deployVars, schemaVars>>

-------------------------------------------------------------------------------

SetReady == ready' = ~ready /\ UNCHANGED <<deployment, deploy, smtpVars, schemaVars>>

\* Mutant: the gate is not looked at.
Deploy_Ungated(target) ==
  /\ deploy.step = "idle"
  /\ deploy' = [NoDeploy EXCEPT !.step = "post", !.target = target]
  /\ UNCHANGED <<ready, deployment, smtpVars, schemaVars>>

Deploy(target) ==
  /\ deploy.step = "idle"
  /\ deploy' = IF target = "production" /\ ~ready
                 THEN [NoDeploy EXCEPT !.target = target, !.report = "gated"]
                 ELSE [NoDeploy EXCEPT !.step = "post", !.target = target]
  /\ UNCHANGED <<ready, deployment, smtpVars, schemaVars>>

\* The bundle is posted and becomes the current deployment, even if the answer is an error.
PostDeployment ==
  /\ deploy.step = "post"
  /\ \/ deployment' = [deployment EXCEPT ![deploy.target] = "pending"]
     \/ UNCHANGED deployment
  /\ deploy' \in {d \in {[deploy EXCEPT !.step = "poll"],
                         [deploy EXCEPT !.step = "idle", !.report = "error"]} :
                    d.step = "poll" => deployment'[deploy.target] = "pending"}
  /\ UNCHANGED <<ready, smtpVars, schemaVars>>

Build(target) ==
  /\ deployment[target] = "pending"
  /\ \E s \in {"completed", "failed"} : deployment' = [deployment EXCEPT ![target] = s]
  /\ UNCHANGED <<ready, deploy, smtpVars, schemaVars>>

\* Mutant: the deadline is not looked at.
Report_NoDeadline(status) == CASE status = "failed" -> "failed"
                               [] status = "completed" -> "deployed"
                               [] OTHER -> "none"

\* Mutant: a deployment that is not failed at the deadline is taken for deployed.
Report_Optimistic(status) ==
  CASE status = "failed" -> "failed"
    [] status = "completed" \/ deploy.polls = Polls -> "deployed"
    [] OTHER -> "none"

\* What the script reports after a status; "none" is to wait for the next poll.
Report(status) == CASE status = "failed" -> "failed"
                    [] status = "completed" -> "deployed"
                    [] status = "pending" /\ deploy.polls = Polls -> "pending"
                    [] OTHER -> "none"

Poll ==
  /\ deploy.step = "poll"
  /\ LET report == Report(deployment[deploy.target])
     IN  deploy' \in {[deploy EXCEPT !.step = "idle", !.report = "error"],
                      IF report = "none" THEN [deploy EXCEPT !.polls = @ + 1]
                      ELSE [deploy EXCEPT !.step = "idle", !.report = report]}
  /\ UNCHANGED <<ready, deployment, smtpVars, schemaVars>>

-------------------------------------------------------------------------------

SetMigrator(m, next) == migrator' = [migrator EXCEPT ![m].step = next]

\* Mutant: the lock is not taken.
TakeLock_Not(m) ==
  /\ migrator[m].step = "new"
  /\ SetMigrator(m, "read")
  /\ UNCHANGED <<schema, lock, smtpVars, deployVars>>

\* BEGIN, and the advisory lock of the transaction.
TakeLock(m) ==
  /\ migrator[m].step = "new"
  /\ lock = Unlocked
  /\ lock' = m
  /\ SetMigrator(m, "read")
  /\ UNCHANGED <<schema, smtpVars, deployVars>>

ReadVersion(m) ==
  /\ migrator[m].step = "read"
  /\ migrator' = [migrator EXCEPT ![m] = [step |-> IF schema.version < 1 THEN "apply" ELSE "commit",
                                          read |-> schema.version]]
  /\ UNCHANGED <<schema, lock, smtpVars, deployVars>>

\* ROLLBACK: the lock goes with the transaction.
Abort(m) == SetMigrator(m, "failed") /\ lock' = IF lock = m THEN Unlocked ELSE lock

\* The file of the migration runs; it needs the restricted login, and fails when its
\* policies exist already.
Apply(m) ==
  /\ migrator[m].step = "apply"
  /\ IF schema.role /\ schema.version = 0
       THEN SetMigrator(m, "commit") /\ UNCHANGED lock
       ELSE Abort(m)
  /\ UNCHANGED <<schema, smtpVars, deployVars>>

CommitMigration(m) ==
  /\ migrator[m].step = "commit"
  /\ schema' = [schema EXCEPT !.version = 1]
  /\ SetMigrator(m, "current")
  /\ lock' = IF lock = m THEN Unlocked ELSE lock
  /\ UNCHANGED <<smtpVars, deployVars>>

CreateRole == schema' = [schema EXCEPT !.role = ~@]
              /\ UNCHANGED <<lock, migrator, smtpVars, deployVars>>

SmtpNext ==
  \/ \E supplied, recipient \in BOOLEAN : Smtp(supplied, recipient)
  \/ SmtpFails \/ SaveProvider \/ CheckProvider \/ SendTest \/ RequireVerification \/ ConsoleMail

DeployNext ==
  \/ \E t \in Targets : Deploy(t) \/ Build(t)
  \/ SetReady \/ PostDeployment \/ Poll

MigrateNext ==
  \/ \E m \in Migrators : TakeLock(m) \/ ReadVersion(m) \/ Apply(m) \/ CommitMigration(m)
  \/ CreateRole

ReleaseNext == SmtpNext \/ DeployNext \/ MigrateNext

ReleaseSpec == ReleaseInit /\ [][ReleaseNext]_releaseVars

-------------------------------------------------------------------------------

\* configure-smtp: addresses are required to be verified only once the provider saved then has
\* accepted a test in the same run, otherwise nobody could sign up any more; what is saved at the
\* console between the test and the requirement, which are two requests, is not looked at.
RequiredAfterTest ==
  [][mail'.required /\ ~mail.required
       => smtp.accepted = "working" /\ (mail.saved = smtp.accepted \/ smtp.overtaken)]_releaseVars

\* configure-smtp: a run without a recipient changes nothing, as its message says; a
\* provider nobody can test is never saved.
NoRecipientNoChange ==
  [][smtp' # smtp /\ smtp.step # "idle" /\ ~smtp.recipient => UNCHANGED mail]_releaseVars

\* deploy: "Deployed" is reported only of a target whose current deployment is complete,
\* whatever the builds do between two polls.
DeployedIsComplete ==
  deploy.report = "deployed" => deployment[deploy.target] = "completed"

\* migrate: of two operators at once, none applies the migration to a schema the other
\* has already brought up; the one that comes second finds it current.
AppliedToOldSchema ==
  \A m \in Migrators : migrator[m].step = "apply" => schema.version = 0
===============================================================================
