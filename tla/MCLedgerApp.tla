---------------------------- MODULE MCLedgerApp ----------------------------
(***************************************************************************)
(* LedgerApp over transactions told apart by their length: one byte is a   *)
(* plain transfer, two carry data and have a nonce that does not format,   *)
(* three do not decode.                                                    *)
(***************************************************************************)
EXTENDS LedgerAppImplements

MCDecodes(tx) == Len(tx) \in {1, 2}
MCIsBlind(tx) == Len(tx) = 2
MCFormats(tx, nonce) == Len(tx) = 1 \/ ~nonce
=============================================================================
