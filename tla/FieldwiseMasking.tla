-------------------------- MODULE FieldwiseMasking --------------------------
(***************************************************************************)
(* What masking a request promises, with no detectors, passes, allowance   *)
(* or vault in it: field after field is either replaced in one step by a   *)
(* text in which nothing can be recognized any more, or fails; only a      *)
(* request every field of which was replaced is forwarded; and values are  *)
(* replaced by aliases that never change and that no two values share.     *)
(***************************************************************************)
EXTENDS MaskedText

VARIABLES
    strict,     \* the ML detector must have had its say as well
    req,        \* the request
    alias,      \* the alias each value met so far is replaced by
    body,       \* body[f]: field f's text as the request carries it now
    walked,     \* how many fields have been dealt with
    failed,     \* some field could not be masked
    answer      \* what became of the request

promiseVars == <<strict, req, alias, body, walked, failed, answer>>

-----------------------------------------------------------------------------
\* Field f may be sent with text t.
Cleaned(f, t) ==
    /\ Structured(req[f], t) = {}
    /\ strict => \A i \in Named(req[f], RawText) : t[i] # Raw
    /\ \A i \in req[f].items :
          t[i] # Raw => ValueOf[i] \in DOMAIN alias /\ t[i] = alias[ValueOf[i]]

Injective(f) == \A x, y \in DOMAIN f : f[x] = f[y] => x = y

Init ==
    /\ strict \in BOOLEAN
    /\ req \in Requests
    /\ DOMAIN alias = {}
    /\ body = [f \in 1..Len(req) |-> RawText]
    /\ walked = 0
    /\ failed = FALSE
    /\ answer = "none"

LearnAlias ==
    /\ answer = "none"
    /\ \A v \in DOMAIN alias : v \in DOMAIN alias' /\ alias'[v] = alias[v]
    /\ Injective(alias')
    /\ UNCHANGED <<strict, req, body, walked, failed, answer>>

MaskField ==
    /\ answer = "none" /\ walked < Len(req)
    /\ walked' = walked + 1
    /\ body' = [body EXCEPT ![walked + 1] = body'[walked + 1]]
    /\ req[walked + 1].shape = "text"
    /\ Cleaned(walked + 1, body'[walked + 1])
    /\ UNCHANGED <<strict, req, alias, failed, answer>>

GiveUpField ==
    /\ answer = "none" /\ walked < Len(req)
    /\ walked' \in {walked, walked + 1}
    /\ failed' = TRUE
    /\ UNCHANGED <<strict, req, alias, body, answer>>

Forward ==
    /\ answer = "none" /\ walked = Len(req) /\ ~failed
    /\ answer' = "forwarded"
    /\ UNCHANGED <<strict, req, alias, body, walked, failed>>

Refuse ==
    /\ answer = "none"
    /\ \/ failed /\ answer' = "blocked"
       \/ answer' = "failed"
    /\ UNCHANGED <<strict, req, alias, body, walked, failed>>

Next == LearnAlias \/ MaskField \/ GiveUpField \/ Forward \/ Refuse

Spec == Init /\ [][Next]_promiseVars
=============================================================================
