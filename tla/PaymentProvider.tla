---------------------------- MODULE PaymentProvider ----------------------------
(***************************************************************************)
(* The payment provider behind IPaymentGateway: what it did with each       *)
(* provider operation. An operation id is derived from one attempt row      *)
(* (`intent:n' or `intent:manual:n'), so it is written here as that row.    *)
(* MockPaymentAdapter records one outcome per operation id; a TIMEOUT or    *)
(* AMBIGUOUS one is PENDING here, and may later turn out either way.        *)
(***************************************************************************)
EXTENDS BillingStore

VARIABLE provider

ProviderStates == {"NONE", "PENDING", "CHARGED", "REJECTED"}

ChargeOutcomes == {"SUCCEEDED", "DECLINED", "TIMEOUT", "AMBIGUOUS", "PROVIDER_ERROR"}

Verdicts == {"SUCCEEDED", "FAILED", "UNKNOWN"}

ProviderTypeOK == provider \in [Intents -> [Rows -> ProviderStates]]

ProviderInit == provider = [i \in Intents |-> [n \in Rows |-> "NONE"]]

\* What recording outcome o makes of a new operation.
Recorded(o) ==
    CASE o = "SUCCEEDED" -> "CHARGED"
      [] o \in {"DECLINED", "PROVIDER_ERROR"} -> "REJECTED"
      [] OTHER -> "PENDING"

\* charge(): a known operation keeps what was recorded, a new one records o.
ChargeCall(i, n, o) ==
    /\ provider[i][n] \in {"NONE", Recorded(o)}
    /\ provider' = [provider EXCEPT ![i][n] = Recorded(o)]

\* verify(): the answer v. FAILED is definitive: the provider rejects the
\* operation from then on. It may answer so of an id that never reached it.
VerifyCall(i, n, v) ==
    \/ /\ v = "SUCCEEDED" /\ provider[i][n] = "CHARGED"
       /\ UNCHANGED provider
    \/ /\ v = "FAILED" /\ provider[i][n] \in {"NONE", "REJECTED"}
       /\ provider' = [provider EXCEPT ![i][n] = "REJECTED"]
    \/ /\ v = "UNKNOWN" /\ provider[i][n] \in {"NONE", "PENDING"}
       /\ UNCHANGED provider

\* An operation whose outcome nobody was told is settled on the provider's side.
ProviderResolves(i, n) ==
    /\ provider[i][n] = "PENDING"
    /\ \E p \in {"CHARGED", "REJECTED"} :
           provider' = [provider EXCEPT ![i][n] = p]
=============================================================================
