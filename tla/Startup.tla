------------------------------ MODULE Startup -------------------------------
(***************************************************************************)
(* The start of the process up to its workers: Config::load with           *)
(* resolve_instance and validate_protocol_identifiers (src/config.rs), and *)
(* Target::parse as main calls it. An instance "ec2" is replaced by what   *)
(* the EC2 metadata service answers, asked with a token (IMDSv2) and, if   *)
(* that is refused or there is no token, without one (IMDSv1).             *)
(***************************************************************************)
EXTENDS Target

CONSTANTS
    Configurations, \* what the file may hold, as far as the start reads it
    Services,       \* the versions that the metadata service may answer
    Ids,            \* what it may answer, trimmed and not empty
    LongInstances,  \* the instances over MAX_INSTANCE_SIZE
    LongResources   \* the resources over MAX_RESOURCE_SIZE

ASSUME ConfigurationsAssumption ==
    Configurations \subseteq [instance : STRING, resources : SUBSET STRING, target : Urls]
ASSUME ServicesAssumption == Services \subseteq SUBSET {"v1", "v2"}
ASSUME IdsAssumption == Ids \subseteq STRING

VARIABLES
    stage,    \* where the start is
    config,   \* the configuration in the file
    instance, \* Config.instance
    token,    \* the token in resolve_instance
    service,  \* the versions that the metadata service answers
    trouble   \* history: what went wrong between the two

vars == <<stage, config, instance, token, service, trouble>>

Resolving == {"token", "fetching"}
Stages == {"loading", "checking", "parsing", "ready", "failed"} \cup Resolving
Tokens == {"none", "good", "bad"}
Troubles == {"token lost", "token unusable", "token refused", "answer lost"}

Init ==
    /\ stage = "loading"
    /\ config \in Configurations
    /\ instance = config.instance
    /\ token = "none"
    /\ service \in Services
    /\ trouble = {}

-----------------------------------------------------------------------------
(* The file is read and parsed; only the instance "ec2" is resolved.       *)
Load ==
    /\ stage = "loading"
    /\ \/ stage' = IF instance = "ec2" THEN "token" ELSE "checking"
       \/ stage' = "failed"
    /\ UNCHANGED <<config, instance, token, service, trouble>>

(* The request for a token is answered with one; a service that knows no   *)
(* tokens refuses it, with an empty body or a body that is no token.       *)
TokenAnswered ==
    /\ token' \in IF "v2" \in service THEN {"good"} ELSE {"none", "bad"}
    /\ stage' = "fetching"
    /\ UNCHANGED trouble

(* The request, its answer or the service fails: there is no token.        *)
TokenLost ==
    /\ token' = "none"
    /\ stage' = "fetching"
    /\ trouble' = trouble \cup {"token lost"}

(* The body is no header value: the start fails.                           *)
TokenUnusable ==
    /\ "v2" \notin service
    /\ stage' = "failed"
    /\ trouble' = trouble \cup {"token unusable"}
    /\ UNCHANGED token

AskToken ==
    /\ stage = "token"
    /\ TokenAnswered \/ TokenLost \/ TokenUnusable
    /\ UNCHANGED <<config, instance, service>>

-----------------------------------------------------------------------------
(* Whether the service answers the request for the instance, and whether   *)
(* it may refuse it: a token may have expired, and one that is none may    *)
(* be refused or ignored.                                                  *)
MayAnswer == IF token = "good" THEN "v2" \in service ELSE "v1" \in service
MayRefuse == token # "none" \/ "v1" \notin service

\* Mutant: the identifiers are validated before the instance is resolved.
AcceptUnchecked ==
    /\ instance' \in Ids
    /\ stage' = "parsing"
    /\ token' = "none"
    /\ UNCHANGED trouble

(* The body of a success is the instance. The token is not used again.     *)
Accept ==
    /\ instance' \in Ids
    /\ stage' = "checking"
    /\ token' = "none"
    /\ UNCHANGED trouble

\* Mutant: a refused request is not repeated without the token.
RefusedForGood ==
    /\ stage' = "failed"
    /\ token' = "none"
    /\ trouble' = IF token = "good" THEN trouble \cup {"token refused"} ELSE trouble
    /\ UNCHANGED instance

\* Mutant: a refused token is replaced by a new one, as often as needed.
RefusedAgain ==
    /\ stage' = IF token = "none" THEN "failed" ELSE "token"
    /\ token' = "none"
    /\ trouble' = IF token = "good" THEN trouble \cup {"token refused"} ELSE trouble
    /\ UNCHANGED instance

(* Another status: a request with a token is repeated without it, once.    *)
Refused ==
    /\ stage' = IF token = "none" THEN "failed" ELSE "fetching"
    /\ token' = "none"
    /\ trouble' = IF token = "good" THEN trouble \cup {"token refused"} ELSE trouble
    /\ UNCHANGED instance

(* The request fails, times out, or its answer is not readable or blank.   *)
AnswerLost ==
    /\ stage' = "failed"
    /\ token' = "none"
    /\ trouble' = trouble \cup {"answer lost"}
    /\ UNCHANGED instance

FetchInstance ==
    /\ stage = "fetching"
    /\ (MayAnswer /\ Accept) \/ (MayRefuse /\ Refused) \/ AnswerLost
    /\ UNCHANGED <<config, service>>

-----------------------------------------------------------------------------
(* validate_instance and validate_resource                                 *)
ValidInstance == instance \notin LongInstances
ValidResources == config.resources \cap LongResources = {}

(* validate_protocol_identifiers                                           *)
Check ==
    /\ stage = "checking"
    /\ stage' = IF ValidInstance /\ ValidResources THEN "parsing" ELSE "failed"
    /\ UNCHANGED <<config, instance, token, service, trouble>>

(* main parses the target.                                                 *)
ParseTarget ==
    /\ stage = "parsing"
    /\ stage' = IF config.target.scheme \in Supported THEN "ready" ELSE "failed"
    /\ UNCHANGED <<config, instance, token, service, trouble>>

Next == Load \/ AskToken \/ FetchInstance \/ Check \/ ParseTarget

Spec == Init /\ [][Next]_vars

(* The file is local, and each request has a timeout (metadata_client).    *)
FairSpec == Spec /\ WF_vars(Next)

-----------------------------------------------------------------------------
(* Every variable has its type.                                            *)
TypeOK ==
    /\ stage \in Stages
    /\ config \in Configurations
    /\ instance \in STRING
    /\ token \in Tokens
    /\ service \in Services
    /\ trouble \subseteq Troubles

(* A client that starts registers under the name of its configuration or,  *)
(* for "ec2", under what the metadata service answered with success; the   *)
(* server accepts the name and those of the resources, since both are      *)
(* validated after the name is resolved (Config::load).                    *)
Identified ==
    stage = "ready" =>
        /\ IF config.instance = "ec2" THEN instance \in Ids ELSE instance = config.instance
        /\ ValidInstance
        /\ ValidResources

(* What excuses a failure to resolve the instance.                         *)
Unavoidable ==
    \/ {"answer lost", "token unusable"} \cap trouble # {}
    \/ /\ "v1" \notin service
       /\ "v2" \in service => {"token lost", "token refused"} \cap trouble # {}

(* resolve_instance fails only if an answer is lost or the token cannot be *)
(* sent, or if the service does not answer without a token and either does *)
(* not with one or the token was lost or refused. A service of version 1   *)
(* is found whatever else it says to the request for a token.              *)
FallsBack == [][stage' = "failed" /\ stage \in Resolving => Unavoidable']_vars

Secure(url) == url.scheme \in {"https", "wss"}

(* The path has no empty segment before its trailing slashes.              *)
Regular(path) == \A i \in DOMAIN Trim(path) : path[i] # Empty

(* Both URLs of a client that starts are encrypted if and only if the      *)
(* target is, the endpoint is "ws" under the base of the response URLs,    *)
(* and configuring the endpoint in place of the base is the same           *)
(* (Target::parse).                                                        *)
EndpointsAgree ==
    stage = "ready" =>
        LET target == Parse(config.target) IN
        /\ Secure(target.ws) = Secure(config.target)
        /\ Secure(target.base) = Secure(config.target)
        /\ Parse(target.ws) = target
        /\ Regular(config.target.path) =>
              target.ws.path = Pop(target.base.path) \o <<"ws", Empty>>

(* The start succeeds or fails, whatever the metadata service does.        *)
Settles == <>(stage \in {"ready", "failed"})
=============================================================================
