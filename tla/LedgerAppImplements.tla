------------------------- MODULE LedgerAppImplements -------------------------
(***************************************************************************)
(* LedgerApp as an implementation of ApprovedSigning: a request is a       *)
(* transaction together with its sender's address.                         *)
(***************************************************************************)
EXTENDS LedgerApp

AskedNow == IF ui.screen = "tx_review" THEN [from |-> ui.from, tx |-> ui.tx] ELSE Nothing

GrantedNow ==
  IF run \in {"sign", "attempt"} THEN consent.review
  ELSE IF run = "verify" THEN consent.sig ELSE Nothing

HeldNow ==
  IF nvm.is_sending_signature \/ run = "set_flag" THEN consent.sig ELSE Nothing

\* Read off the bytes that left: who signed, and what.
SignedBy(sig) == [from |-> AddressOf(KeyOf(sig.path)), tx |-> sig.m_hash.preimage]
OutNow == IF io.reply.body = "sig" THEN SignedBy(io.reply.sig) ELSE Nothing

Promise ==
  INSTANCE ApprovedSigning WITH
    Request <- Shown \ {Nothing}, None <- Nothing,
    asked <- AskedNow, granted <- GrantedNow, held <- HeldNow, out <- OutNow

\* With a host that waits for its answers, and no transaction completed while the
\* flag of the one before is up, the whole application behaves as ApprovedSigning
\* promises: handler_sign_tx, validate_transaction and helper_send_response_sig
\* together let nothing out but the signature of the request that was reviewed and
\* approved.
ImplementsApprovedSigning == Promise!Spec
=============================================================================
