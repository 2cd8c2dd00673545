------------------------------ MODULE DeviceAuth ------------------------------
(***************************************************************************)
(* DeviceAuthStore (control-plane/src/gateway/device-auth.ts) behind the   *)
(* /device routes of the API gateway (server.ts), and the `device revoke`  *)
(* command (cli/src/commands/device.ts), which works on the same file from *)
(* a process of its own.  Keys, signatures and ids are ideal.  A route     *)
(* handler runs from the end of its body's read to its answer at once.     *)
(***************************************************************************)
EXTENDS Naturals, FiniteSets

CONSTANTS
  Device,
  Challenge,      \* bound: challenges that may be issued, all different
  ChallengeTtl, SessionTtl,
  MaxTime,        \* bound: the last tick of the clock
  MaxSecrets,     \* bound: secrets that are generated
  None

\* Assumed of the constants; the modules that instantiate this one check it.
AuthAssumption ==
  /\ None \notin Device
  /\ ChallengeTtl \in Nat /\ SessionTtl \in Nat /\ MaxTime \in Nat /\ MaxSecrets \in Nat

VARIABLES
  now,
  up,             \* the gateway runs
  secret, devices,      \* its sessionSecret and its devices
  challenges,     \* challenge -> its record
  file,           \* devices.json
  cli,            \* what a `device revoke` under way has loaded
  secrets,        \* secrets generated so far
  issued,         \* the session tokens issued, for the property
  outside         \* another process has written the file

vars == <<now, up, secret, devices, challenges, file, cli, secrets, issued, outside>>

Secret == 0..MaxSecrets
Content == [secret : Secret, devices : SUBSET Device]
Unreadable == [secret |-> 0, devices |-> {}]

\* `at` is the tick in which a challenge or a token was issued.
Record == [state : {"unissued", "pending", "consumed"}, device : Device \cup {None}, at : Nat]
Token == [device : Device, at : Nat, secret : Secret, challenge : Challenge]

TypeOK ==
  /\ now \in 0..MaxTime /\ up \in BOOLEAN /\ outside \in BOOLEAN
  /\ secret \in Secret /\ secrets \in Secret
  /\ devices \subseteq Device
  /\ challenges \in [Challenge -> Record]
  /\ file \in Content
  /\ cli \in [device : Device \cup {None}, content : Content]
  /\ issued \subseteq Token

NoCli == [device |-> None, content |-> Unreadable]

Init ==
  /\ now = 0 /\ up = FALSE /\ secret = 0 /\ devices = {}
  /\ challenges = [c \in Challenge |-> [state |-> "unissued", device |-> None, at |-> 0]]
  /\ file = Unreadable /\ cli = NoCli /\ secrets = 0 /\ issued = {} /\ outside = FALSE

-----------------------------------------------------------------------------
(* The file *)

\* persist() rewrites the file in place.
Persist(ds) ==
  /\ file' = [secret |-> secret, devices |-> ds]
  /\ devices' = ds

\* A crash within persist() leaves a file that cannot be parsed.
CrashInPersist ==
  /\ up
  /\ up' = FALSE /\ secret' = 0 /\ devices' = {}
  /\ file' = Unreadable
  /\ UNCHANGED <<now, challenges, cli, secrets, issued, outside>>

\* loadFromDisk by the constructor: a file that is absent or unreadable gives a
\* new secret and no device, and is written over.
Start ==
  /\ ~up
  /\ up' = TRUE /\ outside' = FALSE
  /\ \/ /\ file # Unreadable
        /\ secret' = file.secret /\ devices' = file.devices
        /\ UNCHANGED <<file, secrets>>
     \/ /\ file = Unreadable /\ secrets < MaxSecrets
        /\ secrets' = secrets + 1
        /\ secret' = secrets' /\ devices' = {}
        /\ file' = [secret |-> secrets', devices |-> {}]
  /\ challenges' = [c \in Challenge |->
       IF challenges[c].state = "pending" THEN [challenges[c] EXCEPT !.state = "consumed"]
       ELSE challenges[c]]
  /\ UNCHANGED <<now, cli, issued>>

Stop ==
  /\ up
  /\ up' = FALSE /\ secret' = 0 /\ devices' = {}
  /\ UNCHANGED <<now, challenges, file, cli, secrets, issued, outside>>

-----------------------------------------------------------------------------
(* The routes *)

\* /device/enroll: a known key keeps its device; the file is written either way.
Enroll(d) ==
  /\ up
  /\ Persist(devices \cup {d})
  /\ UNCHANGED <<now, up, secret, challenges, cli, secrets, issued, outside>>

\* /device/challenge, pinned to a device or to none.  Expired challenges are
\* dropped, which no later consumeChallenge can tell from refusing them.
IssueChallenge(c, pin) ==
  /\ up /\ challenges[c].state = "unissued"
  /\ challenges' = [challenges EXCEPT ![c] = [state |-> "pending", device |-> pin, at |-> now]]
  /\ UNCHANGED <<now, up, secret, devices, file, cli, secrets, issued, outside>>

Consumable(c, d) ==
  /\ now <= challenges[c].at + ChallengeTtl
  /\ challenges[c].device \in {None, d}
  /\ d \in devices

\* Variant: a challenge is deleted only when it is refused.
AssertKeepingChallenge(c, d, signed) ==
  /\ up /\ challenges[c].state = "pending"
  /\ UNCHANGED challenges
  /\ IF Consumable(c, d) /\ signed
     THEN /\ issued' = issued \cup {[device |-> d, at |-> now, secret |-> secret, challenge |-> c]}
          /\ Persist(devices)
     ELSE UNCHANGED <<devices, file, issued>>
  /\ UNCHANGED <<now, up, secret, cli, secrets, outside>>

\* /device/assert: consumeChallenge deletes the challenge before it is looked
\* at; then the signature, and the token, whose issue is written to the file.
Assert(c, d, signed) ==
  /\ up /\ challenges[c].state = "pending"
  /\ challenges' = [challenges EXCEPT ![c].state = "consumed"]
  /\ IF Consumable(c, d) /\ signed
     THEN /\ issued' = issued \cup {[device |-> d, at |-> now, secret |-> secret, challenge |-> c]}
          /\ Persist(devices)
     ELSE UNCHANGED <<devices, file, issued>>
  /\ UNCHANGED <<now, up, secret, cli, secrets, outside>>

\* verifySessionToken, for a token the gateway has issued.
Accepted(t) ==
  /\ up
  /\ t.secret = secret /\ now <= t.at + SessionTtl /\ t.device \in devices

-----------------------------------------------------------------------------
(* The `device revoke` command: another process loads the file, and writes   *)
(* back what it loaded without the device.                                   *)

CliLoad(d) ==
  /\ cli = NoCli /\ d \in file.devices
  /\ cli' = [device |-> d, content |-> file]
  /\ UNCHANGED <<now, up, secret, devices, challenges, file, secrets, issued, outside>>

CliWrite ==
  /\ cli # NoCli
  /\ file' = [cli.content EXCEPT !.devices = @ \ {cli.device}]
  /\ cli' = NoCli
  /\ outside' = TRUE
  /\ UNCHANGED <<now, up, secret, devices, challenges, secrets, issued>>

Tick ==
  /\ now < MaxTime
  /\ now' = now + 1
  /\ UNCHANGED <<up, secret, devices, challenges, file, cli, secrets, issued, outside>>

Next ==
  \/ Start \/ Stop \/ CrashInPersist \/ CliWrite \/ Tick
  \/ \E d \in Device : Enroll(d) \/ CliLoad(d)
  \/ \E c \in Challenge, d \in Device \cup {None} : IssueChallenge(c, d)
  \/ \E c \in Challenge, d \in Device, signed \in BOOLEAN : Assert(c, d, signed)

Spec == Init /\ [][Next]_vars

-----------------------------------------------------------------------------
(* Properties *)

\* A challenge earns at most one session, in its own time and for the device it
\* was issued for (consumeChallenge, handleDeviceAssert), across restarts.
SessionEarned ==
  /\ \A t, u \in issued : t.challenge = u.challenge => t = u
  /\ \A t \in issued :
       LET c == challenges[t.challenge] IN
       c.state = "consumed" /\ c.device \in {None, t.device} /\ t.at <= c.at + ChallengeTtl

\* A session that the running gateway accepts would be accepted by one started
\* from the file at this moment, as long as no other process has written it
\* (persist before every answer, loadFromDisk, verifySessionToken).
SessionSurvivesRestart ==
  \A t \in issued : Accepted(t) /\ ~outside => t.secret = file.secret /\ t.device \in file.devices
=============================================================================
