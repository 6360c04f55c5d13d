------------------------------ MODULE PinFile ------------------------------
(***************************************************************************)
(* everos_pin, the part of config_fp that is not the server's own. Whoever    *)
(* upgrades EverOS writes its fingerprint to the PIN file under another name  *)
(* and renames it; the search server reads it again for every request, but    *)
(* through PinFileCache, which opens the file only when its mtime or its size *)
(* has changed. Handlers run on threads and share the one cache.              *)
(*                                                                         *)
(* Fingerprints are two hashes, so all of one size, and taking them lasts     *)
(* long enough for no two files to have the same mtime.                       *)
(***************************************************************************)
EXTENDS Naturals

CONSTANTS
    Requests,       \* threads that handle requests, one after the other
    Versions,       \* fingerprints of EverOS
    NoPin,          \* no file, or nothing in it
    Pinnings        \* bound: times the PIN file is written

ASSUME PinAssumption == Pinnings \in Nat \ {0} /\ NoPin \notin Versions

VARIABLES
    pin,            \* the PIN file [text, at], or NoPin
    pinnings,       \* how often it was written, which is the mtime
    cached,         \* PinFileCache._cached [text, at]
    reading,        \* per request [step, at, text] of its read()
    held            \* history: what the file held during that read()

pinVars == <<pin, pinnings, cached, reading, held>>

TextOf(file) == IF file = NoPin THEN NoPin ELSE file.text

\* bootstrap has read the file once, or has failed.
PinInit ==
    /\ \E v \in Versions : pin = [text |-> v, at |-> 1]
    /\ pinnings = 1 /\ cached = pin
    /\ reading = [r \in Requests |-> [step |-> "idle", at |-> 0, text |-> NoPin]]
    /\ held = [r \in Requests |-> {}]

-----------------------------------------------------------------------------
(* The file *)

Becomes(file) ==
    /\ pin' = file
    /\ held' = [r \in Requests |-> IF reading[r].step \in {"look", "read", "remember"}
                                  THEN held[r] \union {TextOf(file)} ELSE held[r]]
    /\ UNCHANGED <<cached, reading>>

\* everos_prod_instance.sh pin: the new version, or one there was before.
WritePin ==
    /\ pinnings < Pinnings /\ pinnings' = pinnings + 1
    /\ \E v \in Versions : Becomes([text |-> v, at |-> pinnings'])

LosePin == pin # NoPin /\ Becomes(NoPin) /\ UNCHANGED pinnings

-----------------------------------------------------------------------------
(* read() *)

Reaches(r, state) == reading' = [reading EXCEPT ![r] = state]

NoFile(r) == Reaches(r, [step |-> "failed", at |-> 0, text |-> NoPin])

Stat(r) ==
    /\ reading[r].step \in {"idle", "done", "failed"}
    /\ held' = [held EXCEPT ![r] = {TextOf(pin)}]
    /\ IF pin = NoPin THEN NoFile(r) ELSE Reaches(r, [step |-> "look", at |-> pin.at, text |-> NoPin])
    /\ UNCHANGED <<pin, pinnings, cached>>

\* The cache answers for a file of the mtime it has seen.
Look(r) ==
    /\ reading[r].step = "look"
    /\ Reaches(r, IF cached.at = reading[r].at
               THEN [reading[r] EXCEPT !.step = "done", !.text = cached.text]
               ELSE [reading[r] EXCEPT !.step = "read"])
    /\ UNCHANGED <<pin, pinnings, cached, held>>

ReadText(r) ==
    /\ reading[r].step = "read"
    /\ IF pin = NoPin THEN NoFile(r)
       ELSE Reaches(r, [reading[r] EXCEPT !.step = "remember", !.text = pin.text])
    /\ UNCHANGED <<pin, pinnings, cached, held>>

\* The file is asked for its mtime after its text.
CacheKey_Later(r) == IF pin = NoPin THEN reading[r].at ELSE pin.at

\* The text is kept under the mtime read before it.
CacheKey(r) == reading[r].at

Remember(r) ==
    /\ reading[r].step = "remember"
    /\ cached' = [text |-> reading[r].text, at |-> CacheKey(r)]
    /\ Reaches(r, [reading[r] EXCEPT !.step = "done"])
    /\ UNCHANGED <<pin, pinnings, held>>

PinNext ==
    \/ WritePin \/ LosePin
    \/ \E r \in Requests : Stat(r) \/ Look(r) \/ ReadText(r) \/ Remember(r)

PinSpec == PinInit /\ [][PinNext]_pinVars

-----------------------------------------------------------------------------
\* What a request is told of EverOS is what the PIN file said at some time
\* while it was being read, and it is refused only if there was no file at some
\* such time: whatever other requests put into the cache meanwhile, and although
\* a file may be replaced between its stat and its reading (PinFileCache.read).
PinIsCurrent ==
    \A r \in Requests :
      /\ reading[r].step = "done" => reading[r].text \in held[r]
      /\ reading[r].step = "failed" => NoPin \in held[r]
=============================================================================
