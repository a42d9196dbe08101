----------------------------- MODULE HotReload -----------------------------
(***************************************************************************)
(* The credentials: how newCloud (hcloud/cloud.go, NewCachedRobotClient of *)
(* robot/client/cache/client.go) reads them when the process starts, and   *)
(* how internal/credentials/hotreload.go reloads them when the files in    *)
(* /etc/hetzner-secret change.                                             *)
(*                                                                         *)
(* The files are those of a mounted secret, which Kubernetes replaces all  *)
(* at once (event ..data), or files on a local machine, which are written  *)
(* one by one.  Each read of a file is a step, so they may change between  *)
(* two reads.  One goroutine handles the events, one after the other.      *)
(***************************************************************************)
EXTENDS Naturals, Sequences

CONSTANTS Values,      \* contents of files, without the space around them
          Tokens,      \* those that have the 64 characters of a token
          Missing,     \* there is no such file, no such environment variable
          Empty,       \* the empty string
          Nil,         \* there is no Robot client
          Secrets,     \* what the directory may hold
          EnvToken,    \* HCLOUD_TOKEN
          MaxFaults,   \* bound on failing calls and crashes
          MaxEdits     \* bound on changes of the files

Files == {"hcloud", "token", "robotuser", "robotpassword"}
Contents == Values \cup {Missing, Empty}
Pairs == Contents \X Contents

ASSUME HotReloadAssumption ==
    /\ Tokens \subseteq Values
    /\ Missing \notin Values /\ Empty \notin Values /\ Missing # Empty
    /\ Nil \notin Pairs
    /\ Secrets \subseteq [Files -> Contents]
    /\ EnvToken \in Values \cup {Missing}
    /\ MaxFaults \in Nat
    /\ MaxEdits \in Nat

VARIABLES deploy,   \* the secret is mounted, the files are local, or there are none
          files,
          events,   \* what the watcher has to handle
          watched,  \* watcher.Add has been called
          at,       \* what the process does next
          event,    \* the event in progress
          user,     \* the user name read, while the password is not
          old,      \* oldHcloudToken, oldRobotUser and oldRobotPassword
          token,    \* the token of the Hetzner Cloud client
          robot,    \* user and password of the Robot client
          missed,   \* history: what changed without an event
          failed,   \* history: the last SetCredentials failed
          faults,
          edits

vars == <<deploy, files, events, watched, at, event, user, old, token, robot,
          missed, failed, faults, edits>>
world == <<deploy, files, edits>>

Loads == {"hcloud", "robot"}
Events == {"hcloud", "robot", "..data"}
StartStages == {"start", "startToken", "startUser", "startPassword", "watch"}
HandlerStages == {"readHcloud", "readToken", "readUser", "readPassword"}

NoOld == [token |-> Empty, robot |-> <<Empty, Empty>>]

Init ==
    /\ deploy \in {"mounted", "local", "env"}
    /\ files \in Secrets
    /\ deploy = "env" => \A f \in Files : files[f] = Missing
    /\ events = << >>
    /\ watched = FALSE
    /\ at = "start"
    /\ event = "..data"
    /\ user = Empty
    /\ old = NoOld
    /\ token = Missing
    /\ robot = Nil
    /\ missed = {}
    /\ failed = FALSE
    /\ faults = 0
    /\ edits = 0

Goto(stage) == at' = stage

\* The process ends; Kubernetes starts it again.
Exit == Goto("exited")

----------------------------------------------------------------------------
(* newCloud.                                                               *)

\* The length of a token.
ValidToken(v) == v \in Tokens

\* newHcloudClient, with the token found.
StartWith(v) ==
    /\ token' = v
    /\ IF ValidToken(v) THEN Goto("startUser") ELSE Exit

\* GetInitialHcloudCredentialsFromDirectory: the file hcloud,
startHcloud ==
    /\ at = "start"
    /\ IF files["hcloud"] = Missing
       THEN Goto("startToken") /\ UNCHANGED <<old, token>>
       ELSE StartWith(files["hcloud"]) /\ old' = [old EXCEPT !.token = files["hcloud"]]
    /\ UNCHANGED <<events, watched, event, user, robot, missed, failed, faults, world>>

\* Mutant: without a file the process does not start.
NoEnvToken ==
    /\ at = "startToken"
    /\ StartWith(files["token"])
    /\ old' = [old EXCEPT !.token = files["token"]]
    /\ UNCHANGED <<events, watched, event, user, robot, missed, failed, faults, world>>

\* then the file token, then the environment.
startToken ==
    /\ at = "startToken"
    /\ IF files["token"] = Missing
       THEN StartWith(EnvToken) /\ UNCHANGED old
       ELSE StartWith(files["token"]) /\ old' = [old EXCEPT !.token = files["token"]]
    /\ UNCHANGED <<events, watched, event, user, robot, missed, failed, faults, world>>

\* NewCachedRobotClient.  Without the directory Robot is not used (the
\* environment has no user); with it, a file that is missing is an error.
startUser ==
    /\ at = "startUser"
    /\ user' = files["robotuser"]
    /\ CASE deploy = "env" -> Goto("watch")
         [] deploy # "env" /\ files["robotuser"] = Missing -> Exit
         [] OTHER -> Goto("startPassword")
    /\ UNCHANGED <<events, watched, event, old, token, robot, missed, failed, faults, world>>

startPassword ==
    LET p == files["robotpassword"]
    IN  /\ at = "startPassword"
        /\ IF p = Missing
           THEN Exit /\ UNCHANGED <<old, robot>>
           ELSE /\ old' = [old EXCEPT !.robot = <<user, p>>]
                /\ robot' = IF Empty \in {user, p} THEN Nil ELSE <<user, p>>
                /\ Goto("watch")
        /\ UNCHANGED <<events, watched, event, user, token, missed, failed, faults, world>>

\* Watch, if there is a directory.
Watch ==
    /\ at = "watch"
    /\ watched' = (deploy # "env")
    /\ Goto("idle")
    /\ UNCHANGED <<events, event, user, old, token, robot, missed, failed, faults, world>>

\* One of the other calls of newCloud fails.
startFails ==
    /\ at \in StartStages
    /\ faults < MaxFaults
    /\ faults' = faults + 1
    /\ Exit
    /\ UNCHANGED <<events, watched, event, user, old, token, robot, missed, failed, world>>

Restart ==
    /\ at = "exited"
    /\ Goto("start")
    /\ events' = << >>
    /\ watched' = FALSE
    /\ old' = NoOld
    /\ token' = Missing
    /\ robot' = Nil
    /\ missed' = {}
    /\ failed' = FALSE
    /\ UNCHANGED <<event, user, faults, world>>

----------------------------------------------------------------------------
(* handleEvent.                                                            *)

takeEvent ==
    /\ at = "idle"
    /\ events # << >>
    /\ event' = Head(events)
    /\ events' = Tail(events)
    /\ Goto(IF Head(events) = "robot" THEN "readUser" ELSE "readHcloud")
    /\ UNCHANGED <<watched, user, old, token, robot, missed, failed, faults, world>>

\* After the token the event ..data goes on with Robot, if there is a client.
AfterHcloud == IF event = "..data" /\ robot # Nil THEN "readUser" ELSE "idle"

\* Mutant: whatever was read is used.
UseAnything(v) ==
    /\ Goto(AfterHcloud)
    /\ old' = [old EXCEPT !.token = v]
    /\ token' = v

\* loadHcloudCredentials, with the token read.
UseToken(v) ==
    \/ ~ValidToken(v) /\ Goto("idle") /\ UNCHANGED <<old, token>>
    \/ /\ ValidToken(v)
       /\ Goto(AfterHcloud)
       /\ IF v = old.token
          THEN UNCHANGED <<old, token>>
          ELSE old' = [old EXCEPT !.token = v] /\ token' = v

\* Mutant: only the file hcloud is read.
HcloudOnly ==
    /\ at = "readHcloud"
    /\ IF files["hcloud"] = Missing
       THEN Goto("idle") /\ UNCHANGED <<old, token>>
       ELSE UseToken(files["hcloud"])
    /\ UNCHANGED <<events, watched, event, user, robot, missed, failed, faults, world>>

\* readHcloudCredentials
readHcloud ==
    /\ at = "readHcloud"
    /\ IF files["hcloud"] = Missing
       THEN Goto("readToken") /\ UNCHANGED <<old, token>>
       ELSE UseToken(files["hcloud"])
    /\ UNCHANGED <<events, watched, event, user, robot, missed, failed, faults, world>>

readToken ==
    /\ at = "readToken"
    /\ IF files["token"] = Missing
       THEN Goto("idle") /\ UNCHANGED <<old, token>>
       ELSE UseToken(files["token"])
    /\ UNCHANGED <<events, watched, event, user, robot, missed, failed, faults, world>>

\* readRobotCredentials
readUser ==
    /\ at = "readUser"
    /\ user' = files["robotuser"]
    /\ Goto(IF files["robotuser"] = Missing THEN "idle" ELSE "readPassword")
    /\ UNCHANGED <<events, watched, event, old, token, robot, missed, failed, faults, world>>

\* Mutant: only a new user name is news.
SameUser(u, p) == u = old.robot[1]

SameRobot(u, p) == <<u, p>> = old.robot

\* The rest of loadRobotCredentials: the old values are replaced before
\* SetCredentials is called, which may fail and panics without a client.
readPassword ==
    LET p == files["robotpassword"]
    IN  /\ at = "readPassword"
        /\ \/ /\ p = Missing \/ SameRobot(user, p)
              /\ Goto("idle")
              /\ UNCHANGED <<old, robot, failed, faults>>
           \/ /\ p # Missing /\ ~SameRobot(user, p)
              /\ old' = [old EXCEPT !.robot = <<user, p>>]
              /\ \/ /\ robot # Nil
                    /\ robot' = <<user, p>>
                    /\ failed' = FALSE
                    /\ Goto("idle")
                    /\ UNCHANGED faults
                 \/ /\ robot # Nil
                    /\ faults < MaxFaults
                    /\ faults' = faults + 1
                    /\ failed' = TRUE
                    /\ Goto("idle")
                    /\ UNCHANGED robot
                 \/ robot = Nil /\ Exit /\ UNCHANGED <<robot, failed, faults>>
        /\ UNCHANGED <<events, watched, event, user, token, missed, world>>

----------------------------------------------------------------------------
(* The files.                                                              *)

LoadOf(f) == IF f \in {"hcloud", "token"} THEN "hcloud" ELSE "robot"

\* Mutant: every name that starts with ".." is skipped.
SkipDots(e, op) == op # "remove" /\ e # "..data"

\* The event of a file that is removed is skipped.
isValidEvent(e, op) == op \in {"write", "create"}

\* The operation op on the files that the loads ls depend on, with the event e.
Notify(e, op, ls) ==
    /\ events' = IF watched /\ isValidEvent(e, op) THEN Append(events, e) ELSE events
    /\ missed' = IF watched /\ op # "remove" THEN missed \ ls ELSE missed \cup ls

Edit == edits < MaxEdits /\ edits' = edits + 1

\* Kubernetes replaces the mounted secret.
UpdateSecret(s) ==
    /\ Edit
    /\ deploy = "mounted"
    /\ s # files
    /\ files' = s
    /\ Notify("..data", "create", Loads)
    /\ UNCHANGED <<deploy, watched, at, event, user, old, token, robot, failed, faults>>

\* A local file is written (truncated first, which is a write of its own).
WriteFile(f, v) ==
    /\ Edit
    /\ deploy = "local"
    /\ v # Missing /\ v # files[f]
    /\ files' = [files EXCEPT ![f] = v]
    /\ Notify(LoadOf(f), "write", {LoadOf(f)})
    /\ UNCHANGED <<deploy, watched, at, event, user, old, token, robot, failed, faults>>

RemoveFile(f) ==
    /\ Edit
    /\ deploy = "local"
    /\ files[f] # Missing
    /\ files' = [files EXCEPT ![f] = Missing]
    /\ Notify(LoadOf(f), "remove", {LoadOf(f)})
    /\ UNCHANGED <<deploy, watched, at, event, user, old, token, robot, failed, faults>>

----------------------------------------------------------------------------
Process ==
    \/ startHcloud \/ startToken \/ startUser \/ startPassword \/ Watch \/ Restart
    \/ takeEvent \/ readHcloud \/ readToken \/ readUser \/ readPassword

Next ==
    \/ Process \/ startFails
    \/ \E s \in Secrets : UpdateSecret(s)
    \/ \E f \in Files : RemoveFile(f) \/ \E v \in {s[f] : s \in Secrets} \cup {Empty} : WriteFile(f, v)

Spec == Init /\ [][Next]_vars

\* The goroutine runs, and Kubernetes restarts the container.
FairSpec == Spec /\ WF_vars(Process)

----------------------------------------------------------------------------
(* Properties.                                                             *)

TypeOK ==
    /\ deploy \in {"mounted", "local", "env"}
    /\ files \in [Files -> Contents]
    /\ events \in Seq(Events) /\ event \in Events
    /\ watched \in BOOLEAN /\ failed \in BOOLEAN
    /\ at \in StartStages \cup HandlerStages \cup {"idle", "exited"}
    /\ user \in Contents
    /\ old \in [token : Contents, robot : Pairs]
    /\ token \in Contents
    /\ at \in HandlerStages \cup {"idle"} => token \in Tokens
    /\ robot \in Pairs \cup {Nil}
    /\ missed \subseteq Loads
    /\ faults \in 0 .. MaxFaults /\ edits \in 0 .. MaxEdits

\* Every event has been handled.
Quiet == at = "idle" /\ events = << >>

\* What readHcloudCredentials finds if nothing changes meanwhile.
TokenInFiles == IF files["hcloud"] # Missing THEN files["hcloud"] ELSE files["token"]

\* Once the events are handled, the Hetzner Cloud client has the token of the
\* files if that is one, unless the files changed without an event (before
\* watcher.Add, or by a removal).
TokenFollows ==
    Quiet /\ watched /\ "hcloud" \notin missed /\ ValidToken(TokenInFiles) => token = TokenInFiles

\* Once the events are handled, a Robot client has the user and the password of
\* the files, never a pair read half before and half after a change.  Not so if
\* the files changed without an event, if SetCredentials failed (it is not
\* called again), or if a mounted secret has no usable token, which ends
\* handleEvent before it comes to Robot.
RobotFollows ==
    /\ Quiet /\ watched /\ robot # Nil
    /\ "robot" \notin missed /\ ~failed
    /\ deploy = "mounted" => ValidToken(TokenInFiles)
    /\ Missing \notin {files["robotuser"], files["robotpassword"]}
    => robot = <<files["robotuser"], files["robotpassword"]>>

\* newCloud cannot succeed with these files.
CannotStart ==
    \/ ~ValidToken(IF TokenInFiles = Missing THEN EnvToken ELSE TokenInFiles)
    \/ deploy # "env" /\ Missing \in {files["robotuser"], files["robotpassword"]}

\* When changes and failures stop, the process is up with no event left, whatever
\* made it exit before (a panic of SetCredentials included), unless the files
\* are such that it cannot start.
ComesUp == <>[](Quiet \/ CannotStart)
=============================================================================
