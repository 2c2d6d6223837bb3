------------------------------ MODULE AuthLayer ------------------------------
(***************************************************************************)
(* What one authenticated COSE layer promises, whatever cryptography fills *)
(* it in: the protected bytes fed to the cryptographic operation are       *)
(* frozen while a result over them is pending or stored, and a result is   *)
(* only ever stored at a moment when the public header view denotes those  *)
(* bytes.  The message modules implement this specification; their public  *)
(* header fields may be edited at any moment, which is the step Edit.      *)
(***************************************************************************)
CONSTANTS
  NoResult,      \* the empty signature, tag or ciphertext buffer
  Start,         \* the header view of a newly built layer
  Denotes(_, _), \* Denotes(bytes, view): the bytes encode that header
  Fresh(_, _),   \* Fresh(bytes, view): the bytes a preparation computes
  Covers(_, _)   \* Covers(result, bytes): the result was made over the bytes

VARIABLES
  view,    \* the public protected header
  bytes,   \* the private protected byte string
  result,  \* the private signature, tag or ciphertext
  phase    \* "New", "Prepared" or "Complete"

layer == <<view, bytes, result, phase>>

Init ==
  /\ view = Start
  /\ Fresh(bytes, view)
  /\ result = NoResult
  /\ phase = "New"

(* The caller writes the public view; nothing private moves.               *)
Edit == UNCHANGED <<bytes, result, phase>>

(* Preparing computes new bytes from the view and drops the old result.    *)
Prepare ==
  /\ Fresh(bytes', view')
  /\ result' = NoResult
  /\ phase' = "Prepared"

(* A result from elsewhere is stored against the bytes that were prepared, *)
(* or against new ones if the layer was never prepared.                    *)
Store ==
  /\ view' = view
  /\ IF phase = "New" THEN Fresh(bytes', view)
                      ELSE Denotes(bytes, view) /\ bytes' = bytes
  /\ phase' = "Complete"

(* Preparing and computing the result in one call: it covers the bytes,    *)
(* or it is moved out to travel apart from the message.                    *)
Produce ==
  /\ Fresh(bytes', view')
  /\ result' = NoResult \/ Covers(result', bytes')
  /\ phase' = "Complete"

(* The layer is replaced by a decoded one: made elsewhere by these rules,  *)
(* or this very layer coming back from the wire; or it is built anew.      *)
Load ==
  /\ Denotes(bytes', view')
  /\ Covers(result', bytes') \/ UNCHANGED <<bytes, result>>
  /\ phase' = "Complete"

Renew == Init'

Next == Edit \/ Prepare \/ Store \/ Produce \/ Load \/ Renew

Spec == Init /\ [][Next]_layer
=============================================================================
