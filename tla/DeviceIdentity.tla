---------------------------- MODULE DeviceIdentity ----------------------------
(***************************************************************************)
(* The browser as a device (webapp/src/ui/controllers/device-identity.ts,  *)
(* gateway-controller.ts): a key pair in IndexedDB, an id in localStorage  *)
(* that all tabs share, a session token in memory.  enroll, assert and     *)
(* reset overlap at their awaits; the page may be reloaded at any of them. *)
(*                                                                         *)
(* IndexedDB may fail at every call.  A key is then looked for, or kept,   *)
(* in localStorage, which may silently not keep it.                        *)
(***************************************************************************)
EXTENDS Naturals, FiniteSets

CONSTANTS
  Enroll, Assert, Reset,   \* the calls
  MaxKeys                  \* bound: key pairs generated

\* Assumed of the constants; the modules that instantiate this one check it.
IdentityAssumption ==
  /\ MaxKeys \in Nat
  /\ Enroll \cap Assert = {} /\ Enroll \cap Reset = {} /\ Assert \cap Reset = {}

VARIABLES
  stored,      \* stored[p]: the private key at the place p, 0 for none
  answeredBy,  \* history: the places a key was looked for at or given to
  deviceId,    \* the id in localStorage: the key the server has enrolled under it, 0 for none
  pair,        \* keyPair in memory
  token,       \* cachedToken: the device it is of
  keys,        \* key pairs generated so far
  op,          \* op[c]: [state, key, device]
  overlapped   \* history: two keys were made at once, or a reset met another call

vars == <<stored, answeredBy, deviceId, pair, token, keys, op, overlapped>>

Op == Enroll \cup Assert \cup Reset
Idle == {"new", "done", "failed"}

Place == {"IndexedDB", "localStorage"}

TypeOK ==
  /\ keys \in 0..MaxKeys /\ stored \in [Place -> 0..keys] /\ deviceId \in 0..keys
  /\ answeredBy \subseteq Place \cup {"nowhere"}
  /\ pair \in 0..keys /\ token \in 0..keys
  /\ \A c \in Op : op[c].key \in 0..keys /\ op[c].device \in 0..keys

Init ==
  /\ stored = [p \in Place |-> 0] /\ answeredBy = {}
  /\ deviceId = 0 /\ pair = 0 /\ token = 0 /\ keys = 0 /\ overlapped = FALSE
  /\ op = [c \in Op |-> [state |-> "new", key |-> 0, device |-> 0]]

To(c, state) == op' = [op EXCEPT ![c].state = state]
End(c, state) == op' = [op EXCEPT ![c] = [state |-> state, key |-> 0, device |-> 0]]

Under(c) == op[c].state \notin Idle

\* A reset among other calls is remembered.
Starts(c) ==
  /\ op[c].state = "new"
  /\ overlapped' = (overlapped \/ \E d \in Op \ {c} : Under(d) /\ (d \in Reset) # (c \in Reset))

-----------------------------------------------------------------------------
(* ensureKeyPair *)

\* enroll begins with it, assert when its token is no longer good and there is an id.
BeginEnroll(c) ==
  /\ c \in Enroll /\ Starts(c)
  /\ op' = [op EXCEPT ![c] = [state |-> IF pair # 0 THEN "paired" ELSE "loading",
                              key |-> pair, device |-> 0]]
  /\ UNCHANGED <<stored, answeredBy, deviceId, pair, token, keys>>

BeginAssert(c) ==
  /\ c \in Assert /\ Starts(c)
  /\ \/ token # 0 /\ End(c, "done")
     \/ deviceId = 0 /\ End(c, "failed")
     \/ deviceId # 0 /\ op' = [op EXCEPT ![c] = [state |-> IF pair # 0 THEN "paired" ELSE "loading",
                                                 key |-> pair, device |-> deviceId]]
  /\ UNCHANGED <<stored, answeredBy, deviceId, pair, token, keys>>

\* loadPrivKey by IndexedDB, or by localStorage when that fails.  The key there is
\* taken, or one is generated.
LoadKey(c) ==
  /\ op[c].state = "loading"
  /\ \E p \in Place :
       /\ answeredBy' = answeredBy \cup {p}
       /\ IF stored[p] # 0
          THEN /\ op' = [op EXCEPT ![c].state = "deriving", ![c].key = stored[p]]
               /\ UNCHANGED <<keys, overlapped>>
          ELSE /\ keys < MaxKeys /\ keys' = keys + 1
               /\ op' = [op EXCEPT ![c].state = "saving", ![c].key = keys + 1]
               /\ overlapped' = (overlapped \/ \E d \in Op \ {c} : op[d].state = "saving")
  /\ UNCHANGED <<stored, deviceId, pair, token>>

\* Variant: the pair is used before it is stored.
SaveKeyLate(c) ==
  /\ op[c].state = "saving"
  /\ pair' = op[c].key /\ To(c, "paired")
  /\ UNCHANGED <<stored, answeredBy, deviceId, token, keys, overlapped>>

\* savePrivKey; a key that localStorage does not keep either is nowhere.
SaveKey(c) ==
  /\ op[c].state = "saving"
  /\ \/ \E p \in Place : /\ stored' = [stored EXCEPT ![p] = op[c].key]
                         /\ answeredBy' = answeredBy \cup {p}
     \/ answeredBy' = answeredBy \cup {"nowhere"} /\ UNCHANGED stored
  /\ To(c, "deriving")
  /\ UNCHANGED <<deviceId, pair, token, keys, overlapped>>

KeepPair(c) ==
  /\ op[c].state = "deriving"
  /\ pair' = op[c].key /\ To(c, "paired")
  /\ UNCHANGED <<stored, answeredBy, deviceId, token, keys, overlapped>>

-----------------------------------------------------------------------------
(* The server's answers *)

\* /device/enroll knows the device by its key; its id is stored when the answer comes,
\* if localStorage takes it.
Enrolled(c) ==
  /\ c \in Enroll /\ op[c].state = "paired"
  /\ deviceId' \in {op[c].key, deviceId} /\ End(c, "done")
  /\ UNCHANGED <<stored, answeredBy, pair, token, keys, overlapped>>

\* /device/challenge and /device/assert: the signature has to be the device's.
Asserted(c) ==
  /\ c \in Assert /\ op[c].state = "paired" /\ op[c].key = op[c].device
  /\ token' = op[c].device /\ End(c, "done")
  /\ UNCHANGED <<stored, answeredBy, deviceId, pair, keys, overlapped>>

\* The request fails, or the server refuses.
Refused(c) ==
  /\ op[c].state = "paired" /\ End(c, "failed")
  /\ UNCHANGED <<stored, answeredBy, deviceId, pair, token, keys, overlapped>>

TokenExpires ==
  /\ token # 0 /\ token' = 0
  /\ UNCHANGED <<stored, answeredBy, deviceId, pair, keys, op, overlapped>>

-----------------------------------------------------------------------------
(* reset *)

\* What can be forgotten at once is; the key in IndexedDB goes later.
BeginReset(c) ==
  /\ c \in Reset /\ Starts(c)
  /\ token' = 0 /\ pair' = 0 /\ deviceId' = 0
  /\ To(c, "deleting")
  /\ UNCHANGED <<stored, answeredBy, keys>>

\* The key in IndexedDB is deleted, or that fails, which nobody is told.  One in
\* localStorage stays.
DeleteKey(c) ==
  /\ op[c].state = "deleting" /\ End(c, "done")
  /\ stored' \in {stored, [stored EXCEPT !["IndexedDB"] = 0]}
  /\ UNCHANGED <<answeredBy, deviceId, pair, token, keys, overlapped>>

\* The page is loaded again: what is in memory is gone.
Reload ==
  /\ pair' = 0 /\ token' = 0
  /\ op' = [c \in Op |-> IF op[c].state \in Idle THEN op[c]
                         ELSE [state |-> "failed", key |-> 0, device |-> 0]]
  /\ UNCHANGED <<stored, answeredBy, deviceId, keys, overlapped>>

Next ==
  \/ \E c \in Op : \/ BeginEnroll(c) \/ BeginAssert(c) \/ LoadKey(c) \/ SaveKey(c) \/ KeepPair(c)
                   \/ Enrolled(c) \/ Asserted(c) \/ Refused(c) \/ BeginReset(c) \/ DeleteKey(c)
  \/ TokenExpires \/ Reload

Spec == Init /\ [][Next]_vars

-----------------------------------------------------------------------------
(* Properties *)

\* The browser holds the key of the device it claims to be, in memory and for after a
\* reload, and a token of no other (ensureKeyPair, loadPrivKey, savePrivKey, enroll,
\* assert, reset): whatever enrolments and asserts overlap, wherever the page is
\* reloaded, and also where IndexedDB always fails.  It need not once IndexedDB failed
\* in between or no place kept the key, two enrolments made a key at once, or a reset
\* met another call.
KeyIsDevices ==
  overlapped \/ deviceId = 0 \/ (~\E p \in Place : answeredBy \subseteq {p}) \/
    /\ \A p \in answeredBy : stored[p] = deviceId
    /\ pair \in {0, deviceId} /\ token \in {0, deviceId}
=============================================================================
