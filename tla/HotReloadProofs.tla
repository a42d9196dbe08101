-------------------------- MODULE HotReloadProofs --------------------------
(***************************************************************************)
(* Proofs about HotReload, for any contents of the files, any number of    *)
(* changes and any failures: what the process reads is well-formed, and    *)
(* the token of the Hetzner Cloud client and the pair of the Robot client  *)
(* follow the files.                                                       *)
(*                                                                         *)
(* In both cases the invariant says that a value which is not yet the one  *)
(* of the files is still to be read, by the event in progress or by one in *)
(* the queue.  A pair is read in two steps: a user that has changed before *)
(* the password is read has left an event behind that reads both again.    *)
(***************************************************************************)
EXTENDS HotReload, SequenceTheorems, TLAPS

\* newCloud has its token, and the process is up.
HasToken == at \in {"startUser", "startPassword", "watch"}
Up == at \in HandlerStages \cup {"idle"}

\* An event that will make handleEvent read the token is in the queue.
Pending == \E i \in 1 .. Len(events) : events[i] # "robot"

\* The token is as it is in the files, whenever it should be.
Follows == "hcloud" \notin missed /\ ValidToken(TokenInFiles) => token = TokenInFiles

\* The token that is still to be read: all of it, or the file token if there is
\* no file hcloud.
StillToRead == Pending \/ at = "readHcloud" \/ (at = "readToken" /\ files["hcloud"] = Missing)

TokenInv ==
    /\ HasToken => token \in Tokens
    /\ HasToken \/ Up => old.token \in {Empty, token}
    /\ at \in StartStages => ~watched
    /\ at \in {"start", "startToken"} => old.token = Empty
    /\ at = "startToken" /\ "hcloud" \notin missed => files["hcloud"] = Missing
    /\ HasToken => Follows
    /\ Up /\ watched => Follows \/ StillToRead
    /\ at = "readToken" /\ watched /\ "hcloud" \notin missed =>
          files["hcloud"] = Missing \/ Pending

IInv == TypeOK /\ TokenInv

----------------------------------------------------------------------------
(* Type correctness.                                                       *)

LEMMA ContentsFacts ==
    /\ Tokens \subseteq Contents /\ EnvToken \in Contents
    /\ Empty \in Contents /\ Missing \in Contents
    /\ Empty \notin Tokens /\ Missing \notin Tokens
    /\ "hcloud" \in Files /\ "token" \in Files
    /\ "robotuser" \in Files /\ "robotpassword" \in Files
BY HotReloadAssumption DEF HotReloadAssumption, Contents, Files

LEMMA InitType == Init => TypeOK
<1> SUFFICES ASSUME Init PROVE TypeOK
  OBVIOUS
<1>1. files \in [Files -> Contents]
  BY HotReloadAssumption DEF HotReloadAssumption, Init
<1>2. events \in Seq(Events) /\ event \in Events
  BY DEF Init, Events
<1>3. user \in Contents /\ token \in Contents /\ robot \in Pairs \cup {Nil}
  BY ContentsFacts DEF Init
<1>4. old \in [token : Contents, robot : Pairs]
  BY ContentsFacts DEF Init, NoOld, Pairs
<1>5. at \in StartStages /\ ~(at \in HandlerStages \cup {"idle"})
  BY DEF Init, StartStages, HandlerStages
<1>6. faults \in 0 .. MaxFaults /\ edits \in 0 .. MaxEdits
  BY HotReloadAssumption DEF HotReloadAssumption, Init
<1>7. QED
  BY <1>1, <1>2, <1>3, <1>4, <1>5, <1>6 DEF Init, TypeOK

\* What a step of the start may change.
LEMMA StartType ==
    ASSUME TypeOK, UNCHANGED <<events, event, failed, world>>,
           watched' \in BOOLEAN, missed' \subseteq Loads, faults' \in 0 .. MaxFaults,
           user' \in Contents, token' \in Contents, robot' \in Pairs \cup {Nil},
           old' \in [token : Contents, robot : Pairs],
           at' \in StartStages \cup {"exited"} \/ (at' = "idle" /\ token' \in Tokens)
    PROVE  TypeOK'
<1>1. ~(at' \in HandlerStages \cup {"idle"}) \/ token' \in Tokens
  BY DEF StartStages, HandlerStages
<1>2. at' \in StartStages \cup HandlerStages \cup {"idle", "exited"}
  OBVIOUS
<1>3. QED
  BY <1>1, <1>2 DEF TypeOK, world

\* The fields of the state that the steps read.
LEMMA Fields ==
    ASSUME TypeOK
    PROVE  /\ \A f \in Files : files[f] \in Contents
           /\ old.token \in Contents /\ old.robot \in Pairs
           /\ \A v \in Contents : [old EXCEPT !.token = v] \in [token : Contents, robot : Pairs]
           /\ \A p \in Pairs : [old EXCEPT !.robot = p] \in [token : Contents, robot : Pairs]
           /\ \A v \in Contents : [old EXCEPT !.token = v].token = v
           /\ \A p \in Pairs : [old EXCEPT !.robot = p].token = old.token
BY DEF TypeOK

LEMMA StartStepType ==
    ASSUME IInv, startHcloud \/ startToken \/ startUser \/ startPassword \/ Watch \/ startFails
    PROVE  TypeOK'
<1>0. TypeOK /\ user \in Contents /\ token \in Contents /\ robot \in Pairs \cup {Nil}
      /\ old \in [token : Contents, robot : Pairs] /\ watched \in BOOLEAN
      /\ missed \subseteq Loads /\ faults \in 0 .. MaxFaults
      /\ \A f \in Files : files[f] \in Contents
  BY Fields DEF IInv, TypeOK
<1>1. CASE startHcloud \/ startToken
  <2>1. ASSUME NEW v \in Contents, StartWith(v),
               UNCHANGED old \/ old' = [old EXCEPT !.token = v],
               UNCHANGED <<events, event, failed, world, watched, missed, faults, user, robot>>
        PROVE  TypeOK'
    <3>1. token' \in Contents /\ at' \in StartStages \cup {"exited"}
      BY <2>1 DEF StartWith, Goto, Exit, StartStages
    <3>2. old' \in [token : Contents, robot : Pairs]
      BY <1>0, <2>1, Fields
    <3>3. QED
      BY <1>0, <2>1, <3>1, <3>2, StartType
  <2>2. CASE at' = "startToken" /\ UNCHANGED <<old, token>>
    BY <1>0, <1>1, <2>2, StartType DEF startHcloud, startToken, StartStages
  <2>3. QED
    BY <1>0, <1>1, <2>1, <2>2, ContentsFacts DEF startHcloud, startToken, Goto
<1>2. CASE startUser
  <2>1. at' \in StartStages \cup {"exited"}
    BY <1>2 DEF startUser, Goto, Exit, StartStages
  <2>2. QED
    BY <1>0, <1>2, <2>1, StartType, ContentsFacts DEF startUser
<1>3. CASE startPassword
  <2>1. at' \in StartStages \cup {"exited"}
    BY <1>3 DEF startPassword, Goto, Exit, StartStages
  <2>2. <<user, files["robotpassword"]>> \in Pairs
    BY <1>0, ContentsFacts DEF Pairs
  <2>3. robot' \in Pairs \cup {Nil} /\ old' \in [token : Contents, robot : Pairs]
    BY <1>0, <1>3, <2>2, Fields DEF startPassword
  <2>4. QED
    BY <1>0, <1>3, <2>1, <2>3, StartType DEF startPassword
<1>4. CASE Watch
  <2>1. token \in Tokens
    BY <1>4 DEF Watch, IInv, TokenInv, HasToken
  <2>2. QED
    BY <1>0, <1>4, <2>1, StartType DEF Watch, Goto
<1>5. CASE startFails
  <2>1. faults' \in 0 .. MaxFaults
    BY <1>0, <1>5, HotReloadAssumption DEF startFails, HotReloadAssumption
  <2>2. QED
    BY <1>0, <1>5, <2>1, StartType DEF startFails, Exit, Goto
<1>6. QED
  BY <1>1, <1>2, <1>3, <1>4, <1>5

LEMMA RestartType ==
    ASSUME TypeOK, Restart
    PROVE  TypeOK'
<1>1. events' \in Seq(Events) /\ old' \in [token : Contents, robot : Pairs]
      /\ token' \in Contents /\ robot' \in Pairs \cup {Nil}
  BY ContentsFacts DEF Restart, NoOld, Pairs
<1>2. at' \in StartStages /\ ~(at' \in HandlerStages \cup {"idle"})
  BY DEF Restart, Goto, StartStages, HandlerStages
<1>3. QED
  BY <1>1, <1>2 DEF TypeOK, Restart, world

\* handleEvent reads the token, or the Robot credentials.
LEMMA HandlerType ==
    ASSUME TypeOK, takeEvent \/ readHcloud \/ readToken \/ readUser \/ readPassword
    PROVE  TypeOK'
<1>0. /\ events \in Seq(Events) /\ token \in Tokens /\ faults \in 0 .. MaxFaults
      /\ old \in [token : Contents, robot : Pairs] /\ robot \in Pairs \cup {Nil}
      /\ user \in Contents
  BY DEF TypeOK, takeEvent, readHcloud, readToken, readUser, readPassword, HandlerStages
<1>1. CASE takeEvent
  <2>1. event' \in Events /\ events' \in Seq(Events)
    BY <1>0, <1>1, HeadTailProperties DEF takeEvent
  <2>2. at' \in HandlerStages
    BY <1>1 DEF takeEvent, Goto, HandlerStages
  <2>3. QED
    BY <1>0, <1>1, <2>1, <2>2 DEF takeEvent, TypeOK, world
<1>2. ASSUME NEW v \in Contents, UseToken(v),
             UNCHANGED <<events, watched, event, user, robot, missed, failed, faults, world>>
      PROVE  TypeOK'
  <2>1. token' \in Tokens /\ old' \in [token : Contents, robot : Pairs]
    BY <1>0, <1>2, Fields DEF UseToken, ValidToken
  <2>2. at' \in HandlerStages \cup {"idle"} /\ token' \in Contents
    BY <1>2, <2>1, ContentsFacts DEF UseToken, Goto, AfterHcloud, HandlerStages
  <2>3. QED
    BY <1>2, <2>1, <2>2 DEF TypeOK, world
<1>3. CASE readHcloud \/ readToken
  <2>1. CASE at' \in {"readToken", "idle"} /\ UNCHANGED <<old, token>>
    <3>1. at' \in HandlerStages \cup {"idle"}
      BY <2>1 DEF HandlerStages
    <3>2. QED
      BY <1>0, <1>3, <2>1, <3>1 DEF readHcloud, readToken, TypeOK, world
  <2>2. files["hcloud"] \in Contents /\ files["token"] \in Contents
    BY Fields, ContentsFacts
  <2>3. QED
    BY <1>2, <1>3, <2>1, <2>2 DEF readHcloud, readToken, Goto
<1>4. CASE readUser
  <2>1. user' \in Contents
    BY <1>4, Fields, ContentsFacts DEF readUser
  <2>2. at' \in HandlerStages \cup {"idle"}
    BY <1>4 DEF readUser, Goto, HandlerStages
  <2>3. QED
    BY <1>0, <1>4, <2>1, <2>2 DEF readUser, TypeOK, world
<1>5. CASE readPassword
  <2>1. <<user, files["robotpassword"]>> \in Pairs
    BY <1>0, Fields, ContentsFacts DEF Pairs
  <2>2. old' \in [token : Contents, robot : Pairs] /\ robot' \in Pairs \cup {Nil}
    BY <1>0, <1>5, <2>1, Fields DEF readPassword
  <2>3. at' \in {"idle", "exited"} /\ failed' \in BOOLEAN
    BY <1>5 DEF readPassword, Goto, Exit, TypeOK
  <2>4. faults' \in 0 .. MaxFaults
    BY <1>0, <1>5, HotReloadAssumption DEF readPassword, HotReloadAssumption
  <2>5. QED
    BY <1>0, <1>5, <2>2, <2>3, <2>4 DEF readPassword, TypeOK, world
<1>6. QED
  BY <1>1, <1>3, <1>4, <1>5

----------------------------------------------------------------------------
(* The token follows the files.                                            *)

LEMMA AppendPending ==
    ASSUME events \in Seq(Events), NEW e \in Events, events' = Append(events, e)
    PROVE  (Pending => Pending') /\ (e # "robot" => Pending')
<1>1. /\ Len(events') = Len(events) + 1 /\ Len(events) \in Nat
      /\ \A i \in 1 .. Len(events) : events'[i] = events[i]
      /\ events'[Len(events) + 1] = e
  BY AppendProperties, LenProperties
<1>2. QED
  BY <1>1 DEF Pending

\* Files change, those that the loads ls read, with the operation op and the
\* event e: the token is read again, or the change is recorded as missed.
LEMMA EditInv ==
    ASSUME IInv, Edit, files' \in [Files -> Contents],
           NEW e \in Events, NEW op \in {"write", "create", "remove"}, NEW ls \in SUBSET Loads,
           Notify(e, op, ls), "hcloud" \in ls => e # "robot",
           "hcloud" \notin ls =>
               files'["hcloud"] = files["hcloud"] /\ files'["token"] = files["token"],
           UNCHANGED <<deploy, watched, at, event, user, old, token, robot, failed, faults>>
    PROVE  IInv'
<1>0. TypeOK /\ TokenInv /\ events \in Seq(Events)
  BY DEF IInv, TypeOK
<1>1. events' = IF watched /\ op # "remove" THEN Append(events, e) ELSE events
  BY DEF Notify, isValidEvent
<1>2. events' \in Seq(Events) /\ (Pending => Pending')
      /\ (watched /\ op # "remove" /\ e # "robot" => Pending')
  <2>1. CASE watched /\ op # "remove"
    BY <1>0, <1>1, <2>1, AppendPending, AppendProperties
  <2>2. CASE ~(watched /\ op # "remove")
    BY <1>0, <1>1, <2>2 DEF Pending
  <2>3. QED
    BY <2>1, <2>2
<1>3. TypeOK'
  <2>1. edits' \in 0 .. MaxEdits
    BY <1>0, HotReloadAssumption DEF Edit, TypeOK, HotReloadAssumption
  <2>2. missed' \subseteq Loads
    BY <1>0 DEF Notify, TypeOK
  <2>3. QED
    BY <1>0, <1>2, <2>1, <2>2 DEF TypeOK
<1>4. CASE "hcloud" \in ls /\ watched /\ op # "remove"
  <2>1. Pending' /\ ~(at \in StartStages)
    BY <1>0, <1>2, <1>4 DEF TokenInv
  <2>2. ~HasToken' /\ at' # "startToken"
    BY <2>1 DEF HasToken, StartStages
  <2>3. QED
    BY <1>0, <1>3, <2>1, <2>2 DEF IInv, TokenInv, StillToRead, Up, HasToken
<1>5. CASE "hcloud" \in ls /\ ~(watched /\ op # "remove")
  <2>1. "hcloud" \in missed'
    BY <1>5 DEF Notify
  <2>2. Follows'
    BY <2>1 DEF Follows
  <2>3. QED
    BY <1>0, <1>3, <2>1, <2>2 DEF IInv, TokenInv, Up, HasToken
<1>6. CASE "hcloud" \notin ls
  <2>1. TokenInFiles' = TokenInFiles /\ files'["hcloud"] = files["hcloud"]
    BY <1>6 DEF TokenInFiles
  <2>2. "hcloud" \in missed' <=> "hcloud" \in missed
    BY <1>6 DEF Notify
  <2>3. Follows' = Follows
    BY <2>1, <2>2 DEF Follows, ValidToken
  <2>4. StillToRead => StillToRead'
    BY <1>2, <2>1 DEF StillToRead
  <2>5. QED
    BY <1>0, <1>2, <1>3, <2>1, <2>2, <2>3, <2>4 DEF IInv, TokenInv, Up, HasToken
<1>7. QED
  BY <1>4, <1>5, <1>6

LEMMA FilesInv ==
    ASSUME IInv,
           \/ \E s \in Secrets : UpdateSecret(s)
           \/ \E f \in Files : \/ RemoveFile(f)
                               \/ \E v \in {s[f] : s \in Secrets} \cup {Empty} : WriteFile(f, v)
    PROVE  IInv'
<1>0. files \in [Files -> Contents] /\ Secrets \subseteq [Files -> Contents]
      /\ Loads \in SUBSET Loads /\ Loads = {"hcloud", "robot"} /\ Events = {"hcloud", "robot", "..data"}
  BY HotReloadAssumption DEF IInv, TypeOK, HotReloadAssumption, Loads, Events
<1>1. ASSUME NEW s \in Secrets, UpdateSecret(s)
      PROVE  IInv'
  <2>1. files' \in [Files -> Contents] /\ Notify("..data", "create", Loads)
    BY <1>0, <1>1 DEF UpdateSecret
  <2>2. QED
    BY <1>0, <1>1, <2>1, EditInv DEF UpdateSecret
<1>2. ASSUME NEW f \in Files, NEW v \in Contents, NEW op \in {"write", "remove"}, Edit,
             files' = [files EXCEPT ![f] = v], Notify(LoadOf(f), op, {LoadOf(f)}),
             UNCHANGED <<deploy, watched, at, event, user, old, token, robot, failed, faults>>
      PROVE  IInv'
  <2>1. LoadOf(f) \in Events /\ {LoadOf(f)} \in SUBSET Loads
    BY <1>0 DEF LoadOf
  <2>2. "hcloud" \in {LoadOf(f)} => LoadOf(f) # "robot"
    OBVIOUS
  <2>3. "hcloud" \notin {LoadOf(f)} =>
            files'["hcloud"] = files["hcloud"] /\ files'["token"] = files["token"]
    BY <1>0, <1>2, ContentsFacts DEF LoadOf
  <2>4. files' \in [Files -> Contents] /\ op \in {"write", "create", "remove"}
    BY <1>0, <1>2
  <2>5. QED
    BY <1>2, <2>1, <2>2, <2>3, <2>4, EditInv
<1>3. ASSUME NEW f \in Files, RemoveFile(f)
      PROVE  IInv'
  BY <1>2, <1>3, ContentsFacts DEF RemoveFile
<1>4. ASSUME NEW f \in Files, NEW v \in {s[f] : s \in Secrets} \cup {Empty}, WriteFile(f, v)
      PROVE  IInv'
  <2>1. v \in Contents
    BY <1>0, ContentsFacts
  <2>2. QED
    BY <1>2, <1>4, <2>1 DEF WriteFile
<1>5. QED
  BY <1>1, <1>3, <1>4

LEMMA StartInv ==
    ASSUME IInv, startHcloud \/ startToken \/ startUser \/ startPassword \/ Watch \/ startFails
    PROVE  IInv'
<1>0. TypeOK /\ TypeOK' /\ TokenInv /\ UNCHANGED <<files, missed>>
  BY StartStepType DEF IInv, startHcloud, startToken, startUser, startPassword, Watch,
                       startFails, world
<1>1. at \in StartStages /\ ~watched
  BY <1>0 DEF startHcloud, startToken, startUser, startPassword, Watch, startFails, StartStages,
              TokenInv
<1>2. CASE at' = "exited" /\ UNCHANGED watched
  <2>1. ~HasToken' /\ ~Up' /\ at' # "startToken"
    BY <1>2 DEF HasToken, Up, HandlerStages
  <2>2. QED
    BY <1>0, <1>1, <1>2, <2>1 DEF IInv, TokenInv
<1>3. CASE /\ at' = "startToken" /\ files["hcloud"] = Missing /\ UNCHANGED <<watched, old>>
           /\ old.token = Empty
  <2>1. ~HasToken' /\ ~Up'
    BY <1>3 DEF HasToken, Up, HandlerStages
  <2>2. QED
    BY <1>0, <1>1, <1>3, <2>1 DEF IInv, TokenInv
<1>4. ASSUME at' \in {"startUser", "startPassword", "watch"}, UNCHANGED watched,
             token' \in Tokens, old'.token \in {Empty, token'}, Follows'
      PROVE  IInv'
  <2>1. HasToken' /\ ~Up' /\ at' # "startToken"
    BY <1>4 DEF HasToken, Up, HandlerStages
  <2>2. QED
    BY <1>0, <1>1, <1>4, <2>1 DEF IInv, TokenInv
<1>5. CASE startHcloud \/ startToken
  <2>1. ASSUME NEW v \in Contents, StartWith(v), at' # "exited",
               old'.token \in {Empty, v}, UNCHANGED watched,
               "hcloud" \notin missed /\ ValidToken(TokenInFiles) => v = TokenInFiles
        PROVE  IInv'
    <3>1. token' = v /\ token' \in Tokens /\ at' = "startUser"
      BY <2>1 DEF StartWith, ValidToken, Goto, Exit
    <3>2. Follows'
      BY <1>0, <2>1, <3>1 DEF Follows, TokenInFiles, ValidToken
    <3>3. QED
      BY <1>4, <2>1, <3>1, <3>2
  <2>2. files["hcloud"] \in Contents /\ files["token"] \in Contents
    BY <1>0, Fields, ContentsFacts
  <2>3. CASE startHcloud
    <3>1. CASE files["hcloud"] = Missing
      BY <1>0, <1>3, <2>3, <3>1 DEF startHcloud, Goto, TokenInv
    <3>2. CASE files["hcloud"] # Missing
      <4>1. StartWith(files["hcloud"]) /\ old'.token = files["hcloud"] /\ UNCHANGED watched
        BY <1>0, <2>2, <2>3, <3>2, Fields DEF startHcloud
      <4>2. TokenInFiles = files["hcloud"]
        BY <3>2 DEF TokenInFiles
      <4>3. QED
        BY <1>2, <2>1, <2>2, <4>1, <4>2
    <3>3. QED
      BY <3>1, <3>2
  <2>4. CASE startToken
    <3>1. "hcloud" \notin missed => TokenInFiles = files["token"]
      BY <1>0, <2>4 DEF startToken, TokenInv, TokenInFiles
    <3>2. UNCHANGED watched
      BY <2>4 DEF startToken
    <3>3. CASE files["token"] = Missing
      <4>1. StartWith(EnvToken) /\ UNCHANGED old
        BY <2>4, <3>3 DEF startToken
      <4>2. "hcloud" \in missed \/ ~ValidToken(TokenInFiles)
        BY <3>1, <3>3, ContentsFacts DEF ValidToken
      <4>3. old.token = Empty
        BY <1>0, <2>4 DEF startToken, TokenInv
      <4>4. QED
        BY <1>2, <2>1, <3>2, <4>1, <4>2, <4>3, ContentsFacts
    <3>4. CASE files["token"] # Missing
      <4>1. StartWith(files["token"]) /\ old'.token = files["token"]
        BY <1>0, <2>2, <2>4, <3>4, Fields DEF startToken
      <4>2. QED
        BY <1>2, <2>1, <2>2, <3>1, <3>2, <4>1
    <3>5. QED
      BY <3>3, <3>4
  <2>5. QED
    BY <1>5, <2>3, <2>4
<1>6. CASE startUser \/ startPassword
  <2>1. HasToken /\ UNCHANGED <<token, watched>>
    BY <1>6 DEF HasToken, startUser, startPassword
  <2>2. Follows' /\ token' \in Tokens
    BY <1>0, <2>1 DEF TokenInv, Follows, TokenInFiles, ValidToken
  <2>3. old'.token = old.token
    <3>1. <<user, files["robotpassword"]>> \in Pairs
      BY <1>0, Fields, ContentsFacts DEF Pairs, TypeOK
    <3>2. QED
      BY <1>0, <1>6, <3>1, Fields DEF startUser, startPassword
  <2>4. old'.token \in {Empty, token'}
    BY <1>0, <2>1, <2>3 DEF TokenInv
  <2>5. at' \in {"startPassword", "watch", "exited"}
    BY <1>6 DEF startUser, startPassword, Goto, Exit
  <2>6. QED
    BY <1>2, <1>4, <2>1, <2>2, <2>4, <2>5
<1>7. CASE Watch
  <2>1. HasToken /\ UNCHANGED <<token, old>> /\ at' = "idle"
    BY <1>7 DEF HasToken, Watch, Goto
  <2>2. Follows' /\ old'.token \in {Empty, token'}
    BY <1>0, <2>1 DEF TokenInv, Follows, TokenInFiles, ValidToken
  <2>3. ~HasToken' /\ ~(at' \in StartStages) /\ ~(at' \in {"start", "startToken", "readToken"})
    BY <2>1 DEF HasToken, StartStages
  <2>4. QED
    BY <1>0, <2>2, <2>3 DEF IInv, TokenInv
<1>8. CASE startFails
  BY <1>2, <1>8 DEF startFails, Exit, Goto
<1>9. QED
  BY <1>5, <1>6, <1>7, <1>8

LEMMA RestartInv ==
    ASSUME IInv, Restart
    PROVE  IInv'
<1>1. at' = "start" /\ ~watched' /\ old'.token = Empty /\ TypeOK'
  BY RestartType DEF Restart, Goto, NoOld, IInv
<1>2. ~HasToken' /\ ~Up'
  BY <1>1 DEF HasToken, Up, HandlerStages
<1>3. QED
  BY <1>1, <1>2 DEF IInv, TokenInv

\* The event that is taken either makes handleEvent read the token, or leaves
\* the others in the queue.
LEMMA TakePending ==
    ASSUME events \in Seq(Events), takeEvent, Pending
    PROVE  Pending' \/ at' = "readHcloud"
<1>1. CASE Head(events) # "robot"
  BY <1>1 DEF takeEvent, Goto
<1>2. CASE Head(events) = "robot"
  <2>1. PICK i \in 1 .. Len(events) : events[i] # "robot"
    BY DEF Pending
  <2>2. i # 1 /\ Len(events) \in Nat
    BY <1>2, <2>1, LenProperties
  <2>3. Len(events') = Len(events) - 1 /\ events'[i - 1] = events[i]
    BY <2>1, <2>2, HeadTailProperties DEF takeEvent
  <2>4. i - 1 \in 1 .. Len(events')
    BY <2>1, <2>2, <2>3
  <2>5. QED
    BY <2>1, <2>3, <2>4 DEF Pending
<1>3. QED
  BY <1>1, <1>2

LEMMA HandlerInv ==
    ASSUME IInv, takeEvent \/ readHcloud \/ readToken \/ readUser \/ readPassword
    PROVE  IInv'
<1>0. /\ TypeOK /\ TypeOK' /\ TokenInv /\ UNCHANGED <<files, missed, watched>> /\ Up
      /\ events \in Seq(Events) /\ old.token \in {Empty, token} /\ token \in Tokens
  BY HandlerType DEF IInv, TypeOK, TokenInv, Up, takeEvent, readHcloud, readToken, readUser,
                     readPassword, HandlerStages, world
<1>1. ASSUME at' \in HandlerStages \cup {"idle", "exited"}, old'.token \in {Empty, token'},
             watched => Follows' \/ StillToRead',
             at' = "readToken" => files["hcloud"] = Missing
      PROVE  IInv'
  <2>1. ~HasToken' /\ ~(at' \in StartStages) /\ ~(at' \in {"start", "startToken"})
    BY <1>1 DEF HasToken, StartStages, HandlerStages
  <2>2. QED
    BY <1>0, <1>1, <2>1 DEF IInv, TokenInv
<1>2. ASSUME UNCHANGED <<token, files, missed>>, Follows
      PROVE  Follows'
  BY <1>2 DEF Follows, TokenInFiles, ValidToken
<1>3. watched => Follows \/ StillToRead
  BY <1>0 DEF TokenInv
<1>4. CASE takeEvent
  <2>1. at = "idle" /\ UNCHANGED <<token, old>>
    BY <1>4 DEF takeEvent
  <2>2. at' \in HandlerStages /\ at' # "readToken"
    BY <1>4 DEF takeEvent, Goto, HandlerStages
  <2>3. StillToRead => StillToRead'
    BY <1>0, <1>4, <2>1, TakePending DEF StillToRead
  <2>4. QED
    BY <1>0, <1>1, <1>2, <1>3, <2>1, <2>2, <2>3
<1>5. ASSUME NEW v \in Contents, UseToken(v), v = TokenInFiles
      PROVE  /\ Follows' /\ at' \in HandlerStages \cup {"idle"} /\ at' # "readToken"
             /\ old'.token \in {Empty, token'}
  <2>1. TokenInFiles' = v
    BY <1>0, <1>5 DEF TokenInFiles
  <2>2. at' \in HandlerStages \cup {"idle"} /\ at' # "readToken"
    BY <1>5 DEF UseToken, Goto, AfterHcloud, HandlerStages
  <2>3. CASE ~ValidToken(v)
    BY <1>0, <1>5, <2>1, <2>2, <2>3 DEF UseToken, Follows, ValidToken
  <2>4. CASE ValidToken(v) /\ v = old.token
    <3>1. v = token /\ UNCHANGED <<old, token>>
      BY <1>0, <1>5, <2>4, ContentsFacts DEF UseToken, ValidToken
    <3>2. QED
      BY <1>0, <2>1, <2>2, <3>1 DEF Follows
  <2>5. CASE ValidToken(v) /\ v # old.token
    <3>1. token' = v /\ old'.token = v
      BY <1>0, <1>5, <2>5, Fields DEF UseToken
    <3>2. QED
      BY <2>1, <2>2, <3>1 DEF Follows
  <2>6. QED
    BY <2>3, <2>4, <2>5
<1>6. files["hcloud"] \in Contents /\ files["token"] \in Contents
  BY <1>0, Fields, ContentsFacts
<1>7. CASE readHcloud
  <2>1. CASE files["hcloud"] = Missing
    <3>1. at' = "readToken" /\ UNCHANGED <<old, token>> /\ files'["hcloud"] = Missing
      BY <1>0, <1>7, <2>1 DEF readHcloud, Goto
    <3>2. StillToRead' /\ at' \in HandlerStages
      BY <3>1 DEF StillToRead, HandlerStages
    <3>3. QED
      BY <1>0, <1>1, <3>1, <3>2
  <2>2. CASE files["hcloud"] # Missing
    BY <1>1, <1>5, <1>6, <1>7, <2>2 DEF readHcloud, TokenInFiles
  <2>3. QED
    BY <2>1, <2>2
<1>8. CASE readToken
  <2>1. UNCHANGED events
    BY <1>8 DEF readToken
  <2>2. Pending => Pending'
    BY <2>1 DEF Pending
  <2>3. CASE files["token"] = Missing
    <3>1. at' = "idle" /\ UNCHANGED <<old, token>>
      BY <1>8, <2>3 DEF readToken, Goto
    <3>2. at = "readToken" /\ at # "readHcloud"
      BY <1>8 DEF readToken
    <3>3. CASE files["hcloud"] = Missing
      <4>1. Follows'
        BY <1>0, <2>3, <3>3, ContentsFacts DEF Follows, TokenInFiles, ValidToken
      <4>2. QED
        BY <1>0, <1>1, <3>1, <4>1
    <3>4. CASE files["hcloud"] # Missing
      <4>1. watched => Follows' \/ StillToRead'
        BY <1>0, <1>2, <1>3, <2>2, <3>1, <3>2, <3>4 DEF StillToRead
      <4>2. QED
        BY <1>0, <1>1, <3>1, <4>1
    <3>5. QED
      BY <3>3, <3>4
  <2>4. CASE files["token"] # Missing /\ files["hcloud"] = Missing
    BY <1>1, <1>5, <1>6, <1>8, <2>4 DEF readToken, TokenInFiles
  <2>5. CASE files["token"] # Missing /\ files["hcloud"] # Missing
    <3>1. UseToken(files["token"]) /\ at = "readToken"
      BY <1>8, <2>5 DEF readToken
    <3>2. at' \in HandlerStages \cup {"idle"} /\ old'.token \in {Empty, token'}
      <4>1. at' \in HandlerStages \cup {"idle"}
        BY <3>1 DEF UseToken, Goto, AfterHcloud, HandlerStages
      <4>2. old'.token \in {Empty, token'}
        BY <1>0, <1>6, <3>1, Fields DEF UseToken
      <4>3. QED
        BY <4>1, <4>2
    <3>3. watched => Follows' \/ StillToRead'
      <4>1. CASE Pending
        BY <2>2, <4>1 DEF StillToRead
      <4>2. CASE ~Pending /\ watched
        <5>1. "hcloud" \in missed'
          BY <1>0, <2>5, <3>1, <4>2 DEF TokenInv
        <5>2. QED
          BY <5>1 DEF Follows
      <4>3. QED
        BY <4>1, <4>2
    <3>4. at' # "readToken"
      BY <3>1 DEF UseToken, Goto, AfterHcloud
    <3>5. QED
      BY <1>1, <3>2, <3>3, <3>4
  <2>6. QED
    BY <2>3, <2>4, <2>5
<1>9. CASE readUser \/ readPassword
  <2>1. /\ at \in {"readUser", "readPassword"} /\ UNCHANGED <<token, events>>
        /\ at' \in {"readPassword", "idle", "exited"}
    BY <1>9 DEF readUser, readPassword, Goto, Exit
  <2>2. old'.token = old.token
    <3>1. <<user, files["robotpassword"]>> \in Pairs
      BY <1>0, Fields, ContentsFacts DEF Pairs, TypeOK
    <3>2. QED
      BY <1>0, <1>9, <3>1, Fields DEF readUser, readPassword
  <2>3. StillToRead => StillToRead'
    BY <2>1 DEF StillToRead, Pending
  <2>4. at' \in HandlerStages \cup {"idle", "exited"} /\ at' # "readToken"
    BY <2>1 DEF HandlerStages
  <2>5. QED
    BY <1>0, <1>1, <1>2, <1>3, <2>1, <2>2, <2>3, <2>4
<1>10. QED
  BY <1>4, <1>7, <1>8, <1>9

LEMMA InitInv == Init => IInv
<1> SUFFICES ASSUME Init PROVE IInv
  OBVIOUS
<1>1. at = "start" /\ ~watched /\ old.token = Empty
  BY DEF Init, NoOld
<1>2. ~HasToken /\ ~Up
  BY <1>1 DEF HasToken, Up, HandlerStages
<1>3. QED
  BY <1>1, <1>2, InitType DEF IInv, TokenInv

LEMMA NextInv == IInv /\ [Next]_vars => IInv'
<1> SUFFICES ASSUME IInv, [Next]_vars PROVE IInv'
  OBVIOUS
<1>1. CASE UNCHANGED vars
  <2>1. TypeOK'
    BY <1>1 DEF vars, IInv, TypeOK
  <2>2. UNCHANGED <<Follows, StillToRead, HasToken, Up, Pending>>
    BY <1>1 DEF vars, Follows, StillToRead, HasToken, Up, Pending, TokenInFiles, ValidToken
  <2>3. QED
    BY <1>1, <2>1, <2>2 DEF vars, IInv, TokenInv
<1>2. CASE Next
  BY <1>2, StartInv, RestartInv, HandlerInv, FilesInv DEF Next, Process
<1>3. QED
  BY <1>1, <1>2

\* Whatever the files hold and whenever they change, the process only comes up,
\* and only stays up, with a token of the right length (newHcloudClient,
\* loadHcloudCredentials).
THEOREM TypeCorrect == Spec => []TypeOK
<1>1. IInv => TypeOK
  BY DEF IInv
<1>2. QED
  BY <1>1, InitInv, NextInv, PTL DEF Spec

\* Once handleEvent has handled the events, the Hetzner Cloud client has the
\* token of the files, for any contents and any number of changes, also those
\* that come between the reads of the two files.
THEOREM TokenIsFollowed == Spec => []TokenFollows
<1>1. IInv => TokenFollows
  <2> SUFFICES ASSUME IInv, Quiet, watched PROVE Follows
    BY DEF TokenFollows, Follows
  <2>1. Up /\ ~StillToRead
    BY DEF Quiet, Up, StillToRead, Pending
  <2>2. QED
    BY <2>1 DEF IInv, TokenInv
<1>2. QED
  BY <1>1, InitInv, NextInv, PTL DEF Spec

----------------------------------------------------------------------------
(* The Robot credentials follow the files.                                 *)

\* The Robot client is as it should be, or it is one of the cases in which
\* nothing is claimed.
RobotFits ==
    \/ robot = Nil \/ "robot" \in missed \/ failed = TRUE
    \/ deploy = "mounted" /\ ~ValidToken(TokenInFiles)
    \/ Missing \in {files["robotuser"], files["robotpassword"]}
    \/ robot = <<files["robotuser"], files["robotpassword"]>>

\* An event that may make handleEvent read the Robot credentials is in the queue.
RobotPending == \E i \in 1 .. Len(events) : events[i] # "hcloud"

\* The token is being read, and the Robot credentials after it.
TokenFirst ==
    /\ event = "..data"
    /\ at = "readHcloud" \/ (at = "readToken" /\ files["hcloud"] = Missing)

RobotToRead ==
    \/ RobotPending \/ TokenFirst
    \/ at = "readUser"
    \/ at = "readPassword" /\ user = files["robotuser"]

\* Only a mounted secret has the event ..data, and without files there is none.
LocalEvents ==
    /\ deploy = "local" => \A i \in 1 .. Len(events) : events[i] # "..data"
    /\ deploy = "local" /\ at \in HandlerStages => event # "..data"
    /\ deploy = "env" => watched = FALSE

\* A pair of which only the user has been read is current, or read again.
RobotInv ==
    /\ at \in {"start", "startToken", "startUser", "startPassword"} => robot = Nil
    /\ Up \/ at = "watch" => failed = TRUE \/ robot = Nil \/ robot = old.robot
    /\ at = "startPassword" => user = files["robotuser"] \/ "robot" \in missed
    /\ at = "watch" => RobotFits
    /\ Up /\ watched = TRUE => RobotFits \/ RobotToRead
    /\ at = "readPassword" /\ watched = TRUE =>
          user = files["robotuser"] \/ RobotPending \/ "robot" \in missed
    /\ LocalEvents

LEMMA AppendRobot ==
    ASSUME events \in Seq(Events), NEW e \in Events, events' = Append(events, e)
    PROVE  /\ RobotPending => RobotPending'
           /\ e # "hcloud" => RobotPending'
           /\ e # "..data" /\ (\A i \in 1 .. Len(events) : events[i] # "..data")
                 => \A i \in 1 .. Len(events') : events'[i] # "..data"
<1>1. /\ Len(events') = Len(events) + 1 /\ Len(events) \in Nat
      /\ \A i \in 1 .. Len(events) : events'[i] = events[i]
      /\ events'[Len(events) + 1] = e
  BY AppendProperties, LenProperties
<1>2. (RobotPending => RobotPending') /\ (e # "hcloud" => RobotPending')
  BY <1>1 DEF RobotPending
<1>3. ASSUME e # "..data", \A i \in 1 .. Len(events) : events[i] # "..data",
             NEW i \in 1 .. Len(events')
      PROVE  events'[i] # "..data"
  <2>1. i \in 1 .. Len(events) \/ i = Len(events) + 1
    BY <1>1
  <2>2. QED
    BY <1>1, <1>3, <2>1
<1>4. QED
  BY <1>2, <1>3

\* Files change, those that the loads ls read, with the event e.
LEMMA RobotEdit ==
    ASSUME IInv, RobotInv,
           NEW e \in Events, NEW op \in {"write", "create", "remove"}, NEW ls \in SUBSET Loads,
           Notify(e, op, ls), "robot" \in ls => e # "hcloud",
           deploy = "local" => e # "..data",
           "robot" \notin ls =>
               /\ deploy = "local"
               /\ files'["robotuser"] = files["robotuser"]
               /\ files'["robotpassword"] = files["robotpassword"],
           UNCHANGED <<deploy, watched, at, event, user, old, token, robot, failed, faults>>
    PROVE  RobotInv'
<1>0. /\ events \in Seq(Events) /\ watched \in BOOLEAN
      /\ at \in StartStages => ~watched
  BY DEF IInv, TypeOK, TokenInv
<1>1. events' = IF watched /\ op # "remove" THEN Append(events, e) ELSE events
  BY DEF Notify, isValidEvent
<1>2. /\ RobotPending => RobotPending'
      /\ watched /\ op # "remove" /\ e # "hcloud" => RobotPending'
      /\ LocalEvents'
  <2>1. CASE watched /\ op # "remove"
    <3>1. events' = Append(events, e)
      BY <1>1, <2>1
    <3>2. QED
      BY <1>0, <2>1, <3>1, AppendRobot DEF RobotInv, LocalEvents
  <2>2. CASE ~(watched /\ op # "remove")
    BY <1>1, <2>2 DEF RobotPending, RobotInv, LocalEvents
  <2>3. QED
    BY <2>1, <2>2
<1>3. /\ at' \in {"start", "startToken", "startUser", "startPassword"} => robot' = Nil
      /\ (Up \/ at = "watch")' => failed' = TRUE \/ robot' = Nil \/ robot' = old'.robot
      /\ Up' <=> Up
  BY DEF RobotInv, Up
<1>4. CASE "robot" \in ls /\ watched /\ op # "remove"
  <2>1. RobotPending' /\ ~(at \in StartStages)
    BY <1>0, <1>2, <1>4
  <2>2. at' # "startPassword" /\ at' # "watch"
    BY <2>1 DEF StartStages
  <2>3. QED
    BY <1>2, <1>3, <2>1, <2>2 DEF RobotInv, RobotToRead
<1>5. CASE "robot" \in ls /\ ~(watched /\ op # "remove")
  <2>1. "robot" \in missed'
    BY <1>5 DEF Notify
  <2>2. RobotFits'
    BY <2>1 DEF RobotFits
  <2>3. QED
    BY <1>2, <1>3, <2>1, <2>2 DEF RobotInv
<1>6. CASE "robot" \notin ls
  <2>1. "robot" \in missed' <=> "robot" \in missed
    BY <1>6 DEF Notify
  <2>2. RobotFits => RobotFits'
    BY <1>6, <2>1 DEF RobotFits
  <2>3. ~TokenFirst
    BY <1>6 DEF RobotInv, LocalEvents, TokenFirst, HandlerStages
  <2>4. RobotToRead => RobotToRead'
    BY <1>2, <1>6, <2>3 DEF RobotToRead
  <2>5. QED
    BY <1>2, <1>3, <1>6, <2>1, <2>2, <2>4 DEF RobotInv
<1>7. QED
  BY <1>4, <1>5, <1>6

LEMMA RobotFiles ==
    ASSUME IInv, RobotInv,
           \/ \E s \in Secrets : UpdateSecret(s)
           \/ \E f \in Files : \/ RemoveFile(f)
                               \/ \E v \in {s[f] : s \in Secrets} \cup {Empty} : WriteFile(f, v)
    PROVE  RobotInv'
<1>0. /\ files \in [Files -> Contents]
      /\ Loads \in SUBSET Loads /\ Loads = {"hcloud", "robot"} /\ Events = {"hcloud", "robot", "..data"}
  BY DEF IInv, TypeOK, Loads, Events
<1>1. ASSUME NEW s \in Secrets, UpdateSecret(s)
      PROVE  RobotInv'
  <2>1. Notify("..data", "create", Loads) /\ deploy # "local"
    BY <1>1 DEF UpdateSecret
  <2>2. QED
    BY <1>0, <1>1, <2>1, RobotEdit DEF UpdateSecret
<1>2. ASSUME NEW f \in Files, NEW v, NEW op \in {"write", "remove"}, deploy = "local",
             files' = [files EXCEPT ![f] = v], Notify(LoadOf(f), op, {LoadOf(f)}),
             UNCHANGED <<deploy, watched, at, event, user, old, token, robot, failed, faults>>
      PROVE  RobotInv'
  <2>1. LoadOf(f) \in Events /\ {LoadOf(f)} \in SUBSET Loads /\ LoadOf(f) # "..data"
    BY <1>0 DEF LoadOf
  <2>2. "robot" \in {LoadOf(f)} => LoadOf(f) # "hcloud"
    OBVIOUS
  <2>3. "robot" \notin {LoadOf(f)} =>
            /\ files'["robotuser"] = files["robotuser"]
            /\ files'["robotpassword"] = files["robotpassword"]
    BY <1>0, <1>2, ContentsFacts DEF LoadOf
  <2>4. QED
    BY <1>2, <2>1, <2>2, <2>3, RobotEdit
<1>3. ASSUME NEW f \in Files, RemoveFile(f)
      PROVE  RobotInv'
  BY <1>2, <1>3 DEF RemoveFile
<1>4. ASSUME NEW f \in Files, NEW v \in {s[f] : s \in Secrets} \cup {Empty}, WriteFile(f, v)
      PROVE  RobotInv'
  BY <1>2, <1>4 DEF WriteFile
<1>5. QED
  BY <1>1, <1>3, <1>4

LEMMA RobotFields ==
    ASSUME TypeOK
    PROVE  /\ \A v \in Contents : [old EXCEPT !.token = v].robot = old.robot
           /\ \A p \in Pairs : [old EXCEPT !.robot = p].robot = p
           /\ files["robotuser"] \in Contents /\ files["robotpassword"] \in Contents
           /\ files["hcloud"] \in Contents /\ files["token"] \in Contents
           /\ watched \in BOOLEAN /\ failed \in BOOLEAN
           /\ user \in Contents
BY ContentsFacts DEF TypeOK

\* A step that reads neither files nor events.
LEMMA SameFits ==
    ASSUME UNCHANGED <<deploy, files, missed, failed, robot>>
    PROVE  RobotFits' <=> RobotFits
BY DEF RobotFits, ValidToken, TokenInFiles

LEMMA RobotStart ==
    ASSUME IInv, RobotInv,
           startHcloud \/ startToken \/ startUser \/ startPassword \/ Watch \/ startFails
    PROVE  RobotInv'
<1>0. /\ TypeOK /\ TokenInv /\ UNCHANGED <<deploy, files, events, event, missed, failed>>
      /\ at \in StartStages /\ watched = FALSE
  BY DEF IInv, TokenInv, TypeOK, startHcloud, startToken, startUser, startPassword, Watch,
         startFails, world, StartStages
<1>1. CASE at' = "exited" /\ UNCHANGED watched
  <2>1. ~Up' /\ ~(at' \in HandlerStages)
    BY <1>1 DEF Up, HandlerStages
  <2>2. QED
    BY <1>0, <1>1, <2>1 DEF RobotInv, LocalEvents
<1>2. CASE at' \in {"startToken", "startUser"} /\ UNCHANGED <<watched, robot>> /\ at \in {"start", "startToken"}
  <2>1. ~Up' /\ ~(at' \in HandlerStages)
    BY <1>2 DEF Up, HandlerStages
  <2>2. QED
    BY <1>0, <1>2, <2>1 DEF RobotInv, LocalEvents
<1>3. CASE startHcloud \/ startToken
  BY <1>1, <1>2, <1>3 DEF startHcloud, startToken, StartWith, Goto, Exit
<1>4. CASE startUser /\ at' # "exited"
  <2>1. /\ at' \in {"startPassword", "watch"} /\ robot' = Nil /\ UNCHANGED watched
        /\ user' = files["robotuser"]
    BY <1>4 DEF startUser, Goto, Exit, RobotInv
  <2>2. ~Up' /\ ~(at' \in HandlerStages) /\ RobotFits'
    BY <2>1 DEF Up, HandlerStages, RobotFits
  <2>3. QED
    BY <1>0, <2>1, <2>2 DEF RobotInv, LocalEvents
<1>5. CASE startPassword /\ at' # "exited"
  <2> DEFINE p == files["robotpassword"]
  <2>1. /\ at' = "watch" /\ UNCHANGED watched
        /\ old' = [old EXCEPT !.robot = <<user, p>>]
        /\ robot' = Nil \/ robot' = <<user, p>>
    BY <1>5 DEF startPassword, Goto, Exit
  <2>2. <<user, p>> \in Pairs
    BY <1>0, RobotFields DEF Pairs
  <2>3. old'.robot = <<user, p>>
    BY <1>0, <2>1, <2>2, RobotFields
  <2>4. user = files["robotuser"] \/ "robot" \in missed
    BY <1>5 DEF startPassword, RobotInv
  <2>5. RobotFits'
    BY <1>0, <2>1, <2>4 DEF RobotFits
  <2>6. ~Up' /\ ~(at' \in HandlerStages)
    BY <2>1 DEF Up, HandlerStages
  <2>7. QED
    BY <1>0, <2>1, <2>3, <2>5, <2>6 DEF RobotInv, LocalEvents
<1>6. CASE Watch
  <2>1. /\ at = "watch" /\ at' = "idle" /\ UNCHANGED <<old, robot>>
        /\ watched' = (deploy # "env")
    BY <1>6 DEF Watch, Goto
  <2>2. RobotFits'
    BY <1>0, <2>1, SameFits DEF RobotInv
  <2>3. failed' = TRUE \/ robot' = Nil \/ robot' = old'.robot
    BY <1>0, <2>1 DEF RobotInv
  <2>4. ~(at' \in HandlerStages) /\ LocalEvents'
    BY <1>0, <2>1 DEF HandlerStages, RobotInv, LocalEvents
  <2>5. QED
    BY <2>1, <2>2, <2>3, <2>4 DEF RobotInv
<1>7. CASE startFails
  BY <1>1, <1>7 DEF startFails, Exit, Goto
<1>8. QED
  BY <1>1, <1>3, <1>4, <1>5, <1>6, <1>7 DEF startUser, startPassword

LEMMA RobotRestart ==
    ASSUME Restart
    PROVE  RobotInv'
<1>1. at' = "start" /\ robot' = Nil /\ events' = << >> /\ watched' = FALSE
  BY DEF Restart, Goto
<1>2. ~Up' /\ ~(at' \in HandlerStages) /\ Len(events') = 0
  BY <1>1 DEF Up, HandlerStages
<1>3. QED
  BY <1>1, <1>2 DEF RobotInv, LocalEvents

\* The event that is taken makes handleEvent come to the Robot credentials, or
\* leaves the others in the queue.
LEMMA TakeRobot ==
    ASSUME events \in Seq(Events), takeEvent
    PROVE  /\ RobotPending => RobotPending' \/ TokenFirst' \/ at' = "readUser"
           /\ (\A i \in 1 .. Len(events) : events[i] # "..data")
                 => event' # "..data" /\ \A i \in 1 .. Len(events') : events'[i] # "..data"
<1>1. /\ Len(events) \in Nat /\ Len(events) # 0
      /\ Len(events') = Len(events) - 1
      /\ \A i \in 1 .. Len(events') : events'[i] = events[i + 1]
      /\ event' = events[1] /\ event' \in Events
  BY HeadTailProperties, LenProperties DEF takeEvent
<1>2. ASSUME RobotPending
      PROVE  RobotPending' \/ TokenFirst' \/ at' = "readUser"
  <2>1. CASE event' = "hcloud"
    <3>1. PICK i \in 1 .. Len(events) : events[i] # "hcloud"
      BY <1>2 DEF RobotPending
    <3>2. i # 1
      BY <1>1, <2>1, <3>1
    <3>3. i - 1 \in 1 .. Len(events') /\ events'[i - 1] = events[i]
      BY <1>1, <3>1, <3>2
    <3>4. QED
      BY <3>1, <3>3 DEF RobotPending
  <2>2. CASE event' = "robot"
    BY <2>2 DEF takeEvent, Goto
  <2>3. CASE event' = "..data"
    BY <2>3 DEF takeEvent, Goto, TokenFirst
  <2>4. QED
    BY <1>1, <2>1, <2>2, <2>3 DEF Events
<1>3. ASSUME \A i \in 1 .. Len(events) : events[i] # "..data"
      PROVE  event' # "..data" /\ \A i \in 1 .. Len(events') : events'[i] # "..data"
  BY <1>1, <1>3
<1>4. QED
  BY <1>2, <1>3

LEMMA RobotHandler ==
    ASSUME IInv, RobotInv, takeEvent \/ readHcloud \/ readToken \/ readUser \/ readPassword
    PROVE  RobotInv'
<1>0. /\ TypeOK /\ UNCHANGED <<deploy, files, missed, watched>> /\ Up
      /\ events \in Seq(Events) /\ watched \in BOOLEAN
      /\ at \in {"idle", "readHcloud", "readToken", "readUser", "readPassword"}
  BY DEF IInv, TypeOK, Up, takeEvent, readHcloud, readToken, readUser, readPassword,
         HandlerStages, world
<1>1. ASSUME at' \in HandlerStages \cup {"idle", "exited"}, LocalEvents',
             failed' = TRUE \/ robot' = Nil \/ robot' = old'.robot,
             watched = TRUE => RobotFits' \/ RobotToRead',
             at' = "readPassword" /\ watched = TRUE =>
                 user' = files["robotuser"] \/ RobotPending' \/ "robot" \in missed
      PROVE  RobotInv'
  <2>1. at' \notin {"start", "startToken", "startUser", "startPassword", "watch"}
    BY <1>1 DEF HandlerStages
  <2>2. QED
    BY <1>0, <1>1, <2>1 DEF RobotInv
<1>2. /\ failed = TRUE \/ robot = Nil \/ robot = old.robot
      /\ watched = TRUE => RobotFits \/ RobotToRead
      /\ LocalEvents
  BY <1>0 DEF RobotInv
<1>3. CASE takeEvent
  <2>1. /\ at = "idle" /\ UNCHANGED <<robot, old, failed, user>>
        /\ at' \in {"readUser", "readHcloud"}
    BY <1>3 DEF takeEvent, Goto
  <2>2. RobotToRead => RobotPending
    BY <2>1 DEF RobotToRead, TokenFirst
  <2>3. RobotPending => RobotToRead'
    BY <1>0, <1>3, TakeRobot DEF RobotToRead
  <2>4. LocalEvents'
    BY <1>0, <1>2, <1>3, TakeRobot DEF LocalEvents
  <2>5. RobotFits => RobotFits'
    BY <1>0, <2>1, SameFits
  <2>6. at' \in HandlerStages /\ at' # "readPassword"
    BY <2>1 DEF HandlerStages
  <2>7. QED
    BY <1>0, <1>1, <1>2, <2>1, <2>2, <2>3, <2>4, <2>5, <2>6
<1>4. ASSUME UNCHANGED <<events, event>>, at \in HandlerStages
      PROVE  LocalEvents' /\ (RobotPending' <=> RobotPending)
  BY <1>0, <1>2, <1>4 DEF LocalEvents, RobotPending
<1>5. CASE readHcloud \/ readToken
  <2>1. /\ UNCHANGED <<events, event, user, robot, failed>>
        /\ at \in {"readHcloud", "readToken"} /\ at \in HandlerStages
    BY <1>5 DEF readHcloud, readToken, HandlerStages
  <2>2. LocalEvents' /\ (RobotPending' <=> RobotPending) /\ (RobotFits' <=> RobotFits)
    BY <1>0, <1>4, <2>1, SameFits
  <2>3. \A v \in Contents : UseToken(v) => old'.robot = old.robot /\ at' \in {"readUser", "idle"}
    BY <1>0, RobotFields DEF UseToken, Goto, AfterHcloud
  <2>4. old'.robot = old.robot /\ at' \in {"readUser", "readToken", "idle"}
    BY <1>0, <1>5, <2>3, RobotFields DEF readHcloud, readToken, Goto
  <2>5. at' \in HandlerStages \cup {"idle", "exited"} /\ at' # "readPassword"
    BY <2>4 DEF HandlerStages
  <2>6. ASSUME watched = TRUE, ~RobotFits, ~RobotPending
        PROVE  RobotToRead'
    <3>1. TokenFirst
      BY <1>2, <2>1, <2>6 DEF RobotToRead
    <3>2. deploy = "mounted"
      BY <1>0, <1>2, <2>1, <2>6, <3>1 DEF LocalEvents, TokenFirst, TypeOK
    <3>3. ValidToken(TokenInFiles) /\ robot # Nil
      BY <2>6, <3>2 DEF RobotFits
    <3>4. UseToken(TokenInFiles) => at' = "readUser"
      BY <3>1, <3>3 DEF UseToken, AfterHcloud, Goto, TokenFirst
    <3>5. CASE files["hcloud"] = Missing /\ readHcloud
      <4>1. at' = "readToken" /\ event' = "..data" /\ files' = files
        BY <1>0, <2>1, <3>1, <3>5 DEF readHcloud, Goto, TokenFirst
      <4>2. QED
        BY <3>5, <4>1 DEF RobotToRead, TokenFirst
    <3>6. CASE files["hcloud"] # Missing /\ readHcloud
      BY <3>4, <3>6 DEF readHcloud, TokenInFiles, RobotToRead
    <3>7. CASE readToken
      <4>1. files["hcloud"] = Missing
        BY <3>1, <3>7 DEF TokenFirst, readToken
      <4>2. TokenInFiles = files["token"] /\ files["token"] # Missing
        BY <3>3, <4>1, ContentsFacts DEF TokenInFiles, ValidToken
      <4>3. QED
        BY <3>4, <3>7, <4>2 DEF readToken, RobotToRead
    <3>8. QED
      BY <1>5, <3>5, <3>6, <3>7
  <2>7. RobotPending => RobotToRead'
    BY <2>2 DEF RobotToRead
  <2>8. QED
    BY <1>1, <1>2, <2>1, <2>2, <2>4, <2>5, <2>6, <2>7
<1>6. CASE readUser
  <2>1. /\ UNCHANGED <<events, event, robot, old, failed>> /\ at \in HandlerStages
        /\ user' = files["robotuser"]
        /\ at' = IF files["robotuser"] = Missing THEN "idle" ELSE "readPassword"
    BY <1>6 DEF readUser, Goto, HandlerStages
  <2>2. LocalEvents'
    BY <1>4, <2>1
  <2>3. at' \in HandlerStages \cup {"idle", "exited"}
    BY <2>1 DEF HandlerStages
  <2>4. RobotFits' \/ RobotToRead'
    BY <1>0, <2>1 DEF RobotFits, RobotToRead
  <2>5. QED
    BY <1>1, <1>2, <2>1, <2>2, <2>3, <2>4
<1>7. CASE readPassword
  <2> DEFINE p == files["robotpassword"]
  <2>1. /\ UNCHANGED <<events, event, user>> /\ at = "readPassword" /\ at \in HandlerStages
        /\ at' \in {"idle", "exited"}
    BY <1>7 DEF readPassword, Goto, Exit, HandlerStages
  <2>2. LocalEvents' /\ (RobotPending' <=> RobotPending)
    BY <1>4, <2>1
  <2>3. watched = TRUE => user = files["robotuser"] \/ RobotPending \/ "robot" \in missed
    BY <2>1 DEF RobotInv
  <2>4. RobotPending => RobotToRead'
    BY <2>2 DEF RobotToRead
  <2>5. <<user, p>> \in Pairs /\ [old EXCEPT !.robot = <<user, p>>].robot = <<user, p>>
    <3>1. <<user, p>> \in Pairs
      BY <1>0, RobotFields DEF Pairs
    <3>2. QED
      BY <1>0, <3>1, RobotFields
  <2>6. CASE UNCHANGED <<old, robot, failed>> /\ (p = Missing \/ <<user, p>> = old.robot)
    <3>1. user = files["robotuser"] => RobotFits'
      BY <1>0, <1>2, <2>6 DEF RobotFits
    <3>2. "robot" \in missed => RobotFits'
      BY <1>0 DEF RobotFits
    <3>3. QED
      BY <1>1, <1>2, <2>1, <2>2, <2>3, <2>4, <2>6, <3>1, <3>2
  <2>7. CASE old' = [old EXCEPT !.robot = <<user, p>>] /\ robot' = <<user, p>>
    <3>1. user = files["robotuser"] => RobotFits'
      BY <1>0, <2>7 DEF RobotFits
    <3>2. "robot" \in missed => RobotFits'
      BY <1>0 DEF RobotFits
    <3>3. robot' = old'.robot
      BY <2>5, <2>7
    <3>4. QED
      BY <1>1, <2>1, <2>2, <2>3, <2>4, <3>1, <3>2, <3>3
  <2>8. CASE failed' = TRUE \/ robot' = Nil
    <3>1. RobotFits'
      BY <2>8 DEF RobotFits
    <3>2. QED
      BY <1>1, <2>1, <2>2, <2>8, <3>1
  <2>9. QED
    BY <1>7, <2>6, <2>7, <2>8 DEF readPassword, SameRobot
<1>8. QED
  BY <1>3, <1>5, <1>6, <1>7

LEMMA InitRobot == Init => RobotInv
<1> SUFFICES ASSUME Init PROVE RobotInv
  OBVIOUS
<1>1. at = "start" /\ robot = Nil /\ events = << >> /\ watched = FALSE
  BY DEF Init
<1>2. ~Up /\ ~(at \in HandlerStages) /\ Len(events) = 0
  BY <1>1 DEF Up, HandlerStages
<1>3. QED
  BY <1>1, <1>2 DEF RobotInv, LocalEvents

LEMMA NextRobot == IInv /\ RobotInv /\ [Next]_vars => RobotInv'
<1> SUFFICES ASSUME IInv, RobotInv, [Next]_vars PROVE RobotInv'
  OBVIOUS
<1>1. CASE UNCHANGED vars
  BY <1>1 DEF vars, RobotInv, RobotFits, RobotToRead, TokenFirst, RobotPending, LocalEvents, Up,
              TokenInFiles, ValidToken
<1>2. CASE Next
  BY <1>2, RobotStart, RobotRestart, RobotHandler, RobotFiles DEF Next, Process
<1>3. QED
  BY <1>1, <1>2

\* Once handleEvent has handled the events, the Robot client has the user and
\* the password of the files, never the one of before and the other of after a
\* change, for any contents and any number of changes between the reads.
THEOREM RobotIsFollowed == Spec => []RobotFollows
<1>1. IInv /\ RobotInv => RobotFollows
  <2> SUFFICES ASSUME IInv, RobotInv, Quiet, watched
               PROVE  RobotFits
    BY DEF RobotFollows, RobotFits, IInv, TypeOK
  <2>1. Up /\ ~RobotToRead
    BY DEF Quiet, Up, RobotToRead, RobotPending, TokenFirst
  <2>2. watched = TRUE
    BY DEF IInv, TypeOK
  <2>3. QED
    BY <2>1, <2>2 DEF RobotInv
<1>2. QED
  BY <1>1, InitInv, NextInv, InitRobot, NextRobot, PTL DEF Spec
=============================================================================
