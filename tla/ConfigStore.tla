----------------------------- MODULE ConfigStore -----------------------------
(***************************************************************************)
(* The configuration (pkg/config) of several pods that share one           *)
(* config.json, and the credentials that scans get from it.  A pod keeps   *)
(* the configuration in memory under a RWMutex and exports the proxy to    *)
(* its process environment after it has unlocked; it reads the file when   *)
(* it starts and never again.  Clients read the configuration with its     *)
(* passwords masked, change something, and put it back, each time at       *)
(* whichever pod the service picks.                                        *)
(*                                                                         *)
(* The three proxy settings are one value here and are exported as two     *)
(* variables instead of six; a credential is its secret (a password, or    *)
(* the token of one scan).  The TLS flags, carried along by the code just  *)
(* as the proxy is, and the user name and token of a stored entry, which   *)
(* go through Save and GetPublic as they are, are left out.                *)
(***************************************************************************)
EXTENDS Integers, FiniteSets, SequencesExt

CONSTANTS
    Pods,
    Clients,      \* each changes the configuration once
    Proxies, Seed, \* proxy settings; the one the deployment seeds from its environment
    Authorities,  \* registries; "" is none
    Secrets,      \* passwords and tokens; "" is none
    NewSecrets,   \* those that clients store
    Edits,        \* what clients may change
    PullSecret,   \* the mounted pull secret: of some authorities, an entry
    FirstConfig,  \* the configuration an earlier deployment has saved
    Scans, RequestOf, \* scans, and of each: the HTTP request for it
    MaxFaults, MaxCrashes, \* bounds: failing writes, pods that die
    Nobody, None

VARIABLES
    up,      \* the pods that run
    config,  \* of each pod: m.config
    env,     \* of each pod: its proxy variables
    file,    \* config.json
    step,    \* of each client: where its request is
    at,      \* of each client: the pod that handles its Save
    base,    \* of each client: the configuration whose public form it has read
    edit,    \* of each client: what it is going to change
    snapshot, \* of each client: applyProxyEnv's copy
    creds,   \* of each scan: the credentials in its registry options
    lastSaver,  \* history: the pod whose Save wrote the file last
    torn,       \* history: the last write, or the last attempt at one, went wrong
    overlapped, \* history: the pods where the last Save began during another one
    faults, crashes

saveVars == <<step, at, base, edit, snapshot>>
histVars == <<lastSaver, torn, overlapped>>
vars == <<up, config, env, file, saveVars, creds, histVars, faults, crashes>>

\* The mask, and the one of older UI builds.
Masks == {"********", "******"}

Keys    == {"HTTP_PROXY", "HTTPS_PROXY"}
Entry   == [authority : Authorities, password : Secrets \union {""}, source : {"ui"}]
IsConfig(c) == DOMAIN c = {"proxy", "auths"} /\ c.proxy \in Proxies /\ c.auths \in Seq(Entry)
Edit    == [change : {"proxy"}, to : Proxies]
               \union [change : {"add"}, of : Authorities, to : NewSecrets]
               \union [change : {"password"}, entry : Nat, to : NewSecrets]
               \union [change : {"rename"}, entry : Nat, to : Authorities]
               \union [change : {"remove"}, entry : Nat]
               \union [change : {"nothing"}]

\* loadMountedAuths: an entry without a user or a password has them in its "auth".
Mounted ==
    [a \in DOMAIN PullSecret |->
        LET e == PullSecret[a]
        IN  IF (~e.named \/ e.password = "") /\ e.auth # "" THEN e.auth ELSE e.password]

\* None is neither an edit nor what a header says.
ASSUME ConfigAssumption ==
    /\ Seed \in Proxies /\ IsConfig(FirstConfig)
    /\ DOMAIN PullSecret \subseteq Authorities /\ "" \notin Authorities
    /\ IsFiniteSet(DOMAIN PullSecret)
    /\ NewSecrets \subseteq Secrets /\ "" \notin Secrets /\ Masks \intersect Secrets = {}
    /\ MaxFaults \in Nat /\ MaxCrashes \in Nat
    /\ Edits \subseteq Edit /\ Nobody \notin Pods /\ None \notin Edits
    /\ \A s \in Scans :
          LET req == RequestOf[s]
          IN  req.from # "ui" =>
                 None # [authority |-> req.host, secret |-> req.header.secret]

\* Every variable has its type; a stored password is a password, never a mask, and a
\* stored entry is never a mounted one.
TypeOK ==
    /\ up \subseteq Pods
    /\ DOMAIN config = Pods /\ \A p \in Pods : IsConfig(config[p])
    /\ env \in [Pods -> [Keys -> Proxies]]
    /\ \/ file.state \in {"absent", "empty", "damaged"}
       \/ file.state = "whole" /\ IsConfig(file.config)
    /\ step \in [Clients -> {"away", "editing", "open", "write", "snapshot", "http",
                             "https", "answered", "cut"}]
    /\ at \in [Clients -> Pods \union {Nobody}]
    /\ DOMAIN base = Clients
    /\ edit \in [Clients -> Edits \union {None}]
    /\ snapshot \in [Clients -> Proxies \union {None}]
    /\ DOMAIN creds = Scans
    /\ lastSaver \in Pods \union {Nobody} /\ torn \in BOOLEAN /\ overlapped \subseteq Pods
    /\ faults \in 0..MaxFaults /\ crashes \in 0..MaxCrashes

Seeded == [proxy |-> Seed, auths |-> <<>>]

\* loadConfig: what does not parse leaves the seeded values.
Loaded == IF file.state = "whole" THEN file.config ELSE Seeded

Init ==
    /\ file \in {[state |-> "absent"], [state |-> "whole", config |-> FirstConfig]}
    /\ up = Pods
    /\ config = [p \in Pods |-> Loaded]
    /\ env = [p \in Pods |-> [k \in Keys |-> Loaded.proxy]]
    /\ step = [c \in Clients |-> "away"]
    /\ at = [c \in Clients |-> Nobody]
    /\ base = [c \in Clients |-> None] /\ edit = [c \in Clients |-> None]
    /\ snapshot = [c \in Clients |-> None]
    /\ creds = [s \in Scans |-> None]
    /\ lastSaver = Nobody /\ torn = FALSE /\ overlapped = {}
    /\ faults = 0 /\ crashes = 0

-----------------------------------------------------------------------------
(* Reading and changing a configuration.                                   *)

\* The elements of seq at the indexes in keep, in their order: what a loop appends
\* that skips the others.  (SelectSeq is the same, but no proof can look into it.)
Kept(seq, keep) ==
    LET upTo[n \in 0..Len(seq)] ==
            IF n = 0 THEN <<>>
            ELSE IF n \in keep THEN Append(upTo[n - 1], seq[n]) ELSE upTo[n - 1]
    IN  upTo[Len(seq)]

\* Mutant of UiAuths: the mounted entries of a GET come back with the PUT and are kept.
AllAuths(auths) == auths

UiAuths(auths) == Kept(auths, {i \in DOMAIN auths : auths[i].source # "mounted-secret"})

\* GetPublic: the mounted entries follow the stored ones, and all are masked.
GetPublic(c) ==
    LET Masked(a) == [a EXCEPT !.password = IF a.password = "" THEN "" ELSE "********"]
        mounted   == SetToSeq({[authority |-> a, password |-> "********",
                                source |-> "mounted-secret"] : a \in DOMAIN Mounted})
    IN  [c EXCEPT !.auths = [i \in DOMAIN @ |-> Masked(@[i])] \o mounted]

\* What a client does to a configuration it has read: the PUT takes any list, so the
\* client may change, rename or remove one stored entry and leave the others of the
\* same authority as they are, or add one more.
Edited(c, e) ==
    LET Chosen(i) == i = e.entry /\ c.auths[i].source = "ui"
    IN  CASE e.change = "proxy"  -> [c EXCEPT !.proxy = e.to]
          [] e.change = "add"    -> [c EXCEPT !.auths = Append(@,
                                       [authority |-> e.of, password |-> e.to, source |-> "ui"])]
          [] e.change = "password" ->
                [c EXCEPT !.auths = [i \in DOMAIN @ |->
                    IF Chosen(i) THEN [@[i] EXCEPT !.password = e.to] ELSE @[i]]]
          [] e.change = "rename" ->
                [c EXCEPT !.auths = [i \in DOMAIN @ |->
                    IF Chosen(i) THEN [@[i] EXCEPT !.authority = e.to] ELSE @[i]]]
          [] e.change = "remove" ->
                [c EXCEPT !.auths = Kept(@, {i \in DOMAIN @ : ~Chosen(i)})]
          [] e.change = "nothing" -> c

\* A client that knows the older mask sends that one.
WithMask(c, mask) ==
    [c EXCEPT !.auths = [i \in DOMAIN @ |->
        IF @[i].password \in Masks THEN [@[i] EXCEPT !.password = mask] ELSE @[i]]]

\* Save's authsMap: of several entries for an authority the last one counts.
StoredPassword(c, authority) ==
    LET entries == {i \in DOMAIN c.auths : c.auths[i].authority = authority}
    IN  IF entries = {} THEN ""
        ELSE c.auths[CHOOSE i \in entries : \A j \in entries : j <= i].password

\* Mutant of Clean: the mask of older UI builds is taken for a password.
CleanNewMask(sent, stored) ==
    LET Unmasked(a) ==
            [a EXCEPT !.source = "ui",
                      !.password = IF @ = "********" THEN StoredPassword(stored, a.authority)
                                   ELSE @]
        ui == UiAuths(sent.auths)
    IN  [sent EXCEPT !.auths = [i \in DOMAIN ui |-> Unmasked(ui[i])]]

\* Save's cleanAuths: a mask stands for the password stored so far.
Clean(sent, stored) ==
    LET Unmasked(a) ==
            [a EXCEPT !.source = "ui",
                      !.password = IF @ \in Masks THEN StoredPassword(stored, a.authority)
                                   ELSE @]
        ui == UiAuths(sent.auths)
    IN  [sent EXCEPT !.auths = [i \in DOMAIN ui |-> Unmasked(ui[i])]]

\* Mutant of BuildRegistryOptions: the stored credentials come first.
StoredFirstOptions(c, own) ==
    LET stored == {c.auths[i].authority : i \in DOMAIN c.auths}
        mine   == IF own = None THEN {} ELSE {own.authority}
    IN  [a \in mine \union stored \union DOMAIN Mounted |->
            IF a \in stored THEN StoredPassword(c, a)
            ELSE IF a \in mine THEN own.secret
            ELSE Mounted[a]]

\* BuildRegistryOptions: a scan's own credential, then the stored ones, then the
\* mounted ones.
BuildRegistryOptions(c, own) ==
    LET stored == {c.auths[i].authority : i \in DOMAIN c.auths}
        mine   == IF own = None THEN {} ELSE {own.authority}
    IN  [a \in mine \union stored \union DOMAIN Mounted |->
            IF a \in mine THEN own.secret
            ELSE IF a \in stored THEN StoredPassword(c, a)
            ELSE Mounted[a]]

-----------------------------------------------------------------------------
(* Save and the handlers around it.                                        *)

InSave(c, p)  == at[c] = p /\ step[c] \in {"open", "write"}
Locked(p)     == \E c \in Clients : InSave(c, p)
Applying(c, p) == at[c] = p /\ step[c] \in {"snapshot", "http", "https"}

Goto(c, to) == step' = [step EXCEPT ![c] = to]

\* handleGetConfig, under the read lock; the client decides what to change.
Get(c, p, e) ==
    /\ step[c] = "away" /\ p \in up /\ ~Locked(p)
    /\ Goto(c, "editing")
    /\ base' = [base EXCEPT ![c] = config[p]]
    /\ edit' = [edit EXCEPT ![c] = e]
    /\ UNCHANGED <<up, config, env, file, at, snapshot, creds, histVars, faults, crashes>>

\* handlePutConfig: Save takes the lock and replaces m.config.
Save(c, p, mask) ==
    /\ step[c] = "editing" /\ p \in up /\ ~Locked(p)
    /\ Goto(c, "open")
    /\ at' = [at EXCEPT ![c] = p]
    /\ LET sent == WithMask(Edited(GetPublic(base[c]), edit[c]), mask)
       IN  config' = [config EXCEPT ![p] = Clean(sent, config[p])]
    /\ overlapped' = IF \E d \in Clients : Applying(d, p) THEN overlapped \union {p}
                     ELSE overlapped \ {p}
    /\ UNCHANGED <<up, env, file, base, edit, snapshot, creds, lastSaver, torn,
                   faults, crashes>>

Fault == faults < MaxFaults /\ faults' = faults + 1

\* Mutant of OpenFile: Save returns the error, and the environment stays as it was.
OpenFileReturns(c) ==
    /\ step[c] = "open"
    /\ \/ /\ Goto(c, "write")
          /\ file' = [state |-> "empty"]
          /\ UNCHANGED <<torn, faults>>
       \/ /\ Goto(c, "answered")
          /\ Fault /\ torn' = TRUE
          /\ UNCHANGED file
    /\ UNCHANGED <<up, config, env, at, base, edit, snapshot, creds, lastSaver,
                   overlapped, crashes>>

\* os.WriteFile truncates config.json, and then writes it from its start.
OpenFile(c) ==
    /\ step[c] = "open"
    /\ \/ /\ Goto(c, "write")
          /\ file' = [state |-> "empty"]
          /\ UNCHANGED <<torn, faults>>
       \/ /\ Goto(c, "snapshot")
          /\ Fault /\ torn' = TRUE
          /\ UNCHANGED file
    /\ UNCHANGED <<up, config, env, at, base, edit, snapshot, creds, lastSaver,
                   overlapped, crashes>>

\* Where another pod has written since, what is shorter than that leaves its tail.
Written(new) ==
    {new} \union IF file.state = "empty" THEN {} ELSE {[state |-> "damaged"]}

\* Mutant of WriteFile: what is written is the public form, with its masks.
WritePublic(c) ==
    /\ step[c] = "write"
    /\ Goto(c, "snapshot")
    /\ file' \in Written([state |-> "whole", config |-> GetPublic(config[at[c]])])
    /\ torn' = (file'.state # "whole")
    /\ lastSaver' = at[c]
    /\ UNCHANGED <<up, config, env, at, base, edit, snapshot, creds, overlapped,
                   faults, crashes>>

\* Save unlocks when the write has returned, with or without an error.
WriteFile(c) ==
    /\ step[c] = "write"
    /\ Goto(c, "snapshot")
    /\ \/ /\ file' \in Written([state |-> "whole", config |-> config[at[c]]])
          /\ torn' = (file'.state # "whole")
          /\ UNCHANGED faults
       \/ /\ file' = [state |-> "damaged"]
          /\ Fault /\ torn' = TRUE
    /\ lastSaver' = at[c]
    /\ UNCHANGED <<up, config, env, at, base, edit, snapshot, creds, overlapped, crashes>>

\* applyProxyEnv copies the configuration under the read lock ...
Snapshot(c) ==
    /\ step[c] = "snapshot" /\ ~Locked(at[c])
    /\ Goto(c, "http")
    /\ snapshot' = [snapshot EXCEPT ![c] = config[at[c]].proxy]
    /\ UNCHANGED <<up, config, env, file, at, base, edit, creds, histVars, faults, crashes>>

\* ... and sets one variable after the other.
SetEnv(c, from, key, to) ==
    /\ step[c] = from
    /\ Goto(c, to)
    /\ env' = [env EXCEPT ![at[c]][key] = snapshot[c]]
    /\ UNCHANGED <<up, config, file, at, base, edit, snapshot, creds, histVars,
                   faults, crashes>>

SetHTTP(c)  == SetEnv(c, "http", "HTTP_PROXY", "https")
SetHTTPS(c) == SetEnv(c, "https", "HTTPS_PROXY", "answered")

-----------------------------------------------------------------------------
(* Pods come and go.                                                       *)

\* The requests it handles are cut off, in the middle of a write too.
Die(p) ==
    /\ p \in up /\ crashes < MaxCrashes
    /\ up' = up \ {p}
    /\ crashes' = crashes + 1
    /\ step' = [c \in Clients |->
          IF InSave(c, p) \/ Applying(c, p) THEN "cut" ELSE step[c]]
    /\ torn' = (torn \/ \E c \in Clients : InSave(c, p) /\ step[c] = "write")
    /\ UNCHANGED <<config, env, file, at, base, edit, snapshot, creds, lastSaver,
                   overlapped, faults>>

\* NewManager.
Start(p) ==
    /\ p \notin up
    /\ up' = up \union {p}
    /\ config' = [config EXCEPT ![p] = Loaded]
    /\ env' = [env EXCEPT ![p] = [k \in Keys |-> Loaded.proxy]]
    /\ overlapped' = overlapped \ {p}
    /\ UNCHANGED <<file, saveVars, creds, lastSaver, torn, faults, crashes>>

-----------------------------------------------------------------------------
(* Scans.  A request from the UI may have a credential; one from Harbor    *)
(* has the host of its registry and an Authorization header.               *)

\* parseRegistryAuth: the secret is what follows "Bearer ", or the password in what
\* follows "Basic ".
parseRegistryAuth(authority, header) ==
    IF header.scheme = "Bearer" \/ (header.scheme = "Basic" /\ header.decodes)
    THEN [authority |-> authority, secret |-> header.secret]
    ELSE None

\* handleCreateScan and AcceptScan: what CreateJob is given as regAuth.
Accepted(req) ==
    IF req.from = "ui" THEN req.auth ELSE parseRegistryAuth(req.host, req.header)

\* RunScan on the pod that has the job: perScanAuth needs an authority.
RunScan(s, p) ==
    /\ p \in up /\ ~Locked(p) /\ creds[s] = None
    /\ LET auth == Accepted(RequestOf[s])
           own  == IF auth # None /\ auth.authority # "" THEN auth ELSE None
       IN  creds' = [creds EXCEPT ![s] = BuildRegistryOptions(config[p], own)]
    /\ UNCHANGED <<up, config, env, file, saveVars, histVars, faults, crashes>>

-----------------------------------------------------------------------------

Next ==
    \/ \E c \in Clients, p \in Pods :
          (\E e \in Edits : Get(c, p, e)) \/ (\E mask \in Masks : Save(c, p, mask))
    \/ \E c \in Clients :
          OpenFile(c) \/ WriteFile(c) \/ Snapshot(c) \/ SetHTTP(c) \/ SetHTTPS(c)
    \/ \E p \in Pods : Die(p) \/ Start(p) \/ \E s \in Scans : RunScan(s, p)

Spec == Init /\ [][Next]_vars

-----------------------------------------------------------------------------
(* Properties.                                                             *)

Idle(p) == \A c \in Clients : ~InSave(c, p) /\ ~Applying(c, p)

\* A client saves the configuration it has read from p, masked, with its edit, and
\* nobody has changed it at p in between.
SavesWhatItRead(c, p) ==
    step[c] = "editing" /\ step'[c] = "open" /\ at'[c] = p /\ base[c] = config[p]

\* new is old with the edit e, except that a masked entry gets the password that
\* counted for its authority, which is its own unless old has several entries for
\* this authority or e gave the entry to it.
Transparent(old, e, new) ==
    LET meant == Edited(old, e)
        Several(a) == \E i, j \in DOMAIN old.auths :
                          i # j /\ old.auths[i].authority = a /\ old.auths[j].authority = a
    IN  /\ new.proxy = meant.proxy
        /\ DOMAIN new.auths = DOMAIN meant.auths
        /\ \A i \in DOMAIN new.auths :
              LET a == meant.auths[i].authority
              IN  /\ new.auths[i].authority = a
                  /\ \/ new.auths[i].password = meant.auths[i].password
                     \/ /\ Several(a) \/ (e.change = "rename" /\ e.to = a)
                        /\ new.auths[i].password = StoredPassword(old, a)

\* The masks are transparent, as far as a mask can tell the entries apart: what a
\* client stores is what it typed, an entry it left alone keeps its secret if it is
\* its authority's only one, an entry it renamed never takes its secret along, and no
\* mounted entry is stored, with either mask.  (Of several entries for an authority
\* all that come back masked get the last one's password.)
MasksAreTransparent ==
    [][\A c \in Clients, p \in Pods :
          SavesWhatItRead(c, p) => Transparent(config[p], edit[c], config'[p])]_vars

\* What a pod has saved is what it would find if it started again: while nobody is
\* saving, the file holds the configuration of the pod that wrote it last, passwords
\* included, unless a write has failed, was cut off by the pod's death, or ran into
\* another pod's, and no whole write has followed.
RestartFindsLastSave ==
    \A p \in up : p = lastSaver /\ (\A q \in Pods : ~Locked(q)) /\ ~torn =>
        file.state = "whole" /\ file.config = config[p]

\* A pod pulls images through the proxy it is configured with: when its Saves have
\* returned its environment follows its memory, whether or not the file could be
\* written, unless the last Save began while an earlier one was still exporting.
EnvFollowsConfig ==
    \A p \in up \ overlapped : Idle(p) =>
        \A k \in Keys : env[p][k] = config[p].proxy

\* The credentials that req carries for authority a.
Carried(req, a) ==
    IF req.from = "ui"
    THEN IF req.auth # None /\ req.auth.authority = a THEN {req.auth.secret} ELSE {}
    ELSE IF req.host = a /\ (req.header.scheme = "Bearer"
                                \/ (req.header.scheme = "Basic" /\ req.header.decodes))
         THEN {req.header.secret} ELSE {}

\* With the edit e of the configuration b a client types a password for a.
TypedFor(b, e, a) ==
    \/ e.change = "add" /\ e.of = a
    \/ /\ e.change = "password" /\ e.entry \in DOMAIN b.auths
       /\ b.auths[e.entry].authority = a

\* What somebody has stored for a, now or before; "" where a client's mask reached a
\* pod that stored nothing for a.
StoredFor(a) ==
    {"", IF a \in DOMAIN Mounted THEN Mounted[a] ELSE ""}
    \union {FirstConfig.auths[i].password : i \in
              {j \in DOMAIN FirstConfig.auths : FirstConfig.auths[j].authority = a}}
    \union {edit[c].to : c \in {d \in Clients : edit[d] # None /\ TypedFor(base[d], edit[d], a)}}

\* A scan pulls from each registry with the credential that came with its own request
\* for that registry, and otherwise with one stored or mounted for it: never with the
\* credential of another scan, of another registry, or a mask.
OwnCredentials ==
    \A s \in Scans : creds[s] # None =>
        \A a \in Authorities :
            LET own == Carried(RequestOf[s], a)
            IN  /\ own # {} => a \in DOMAIN creds[s]
                /\ a \in DOMAIN creds[s] =>
                      creds[s][a] \in (IF own # {} THEN own ELSE StoredFor(a))
=============================================================================
