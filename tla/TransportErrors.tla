--------------------------- MODULE TransportErrors ---------------------------
(***************************************************************************)
(* classify_transport_error and is_retryable_category: which errors of a   *)
(* transport execute_with_retry tries again.                               *)
(*                                                                         *)
(* An error carries a category of its own ("none" if it does not) and a    *)
(* message, of which the classification sees only which words are in it.   *)
(***************************************************************************)
EXTENDS Naturals, Sequences

RetryableCategory ==
    {"timeout", "network", "transient_service_failure", "remote_5xx", "remote_429"}

\* The words looked for, in the order they are looked for.
Rules ==
    << [words |-> {"timed out", "timeout"},              category |-> "timeout"],
       [words |-> {"tls", "ssl", "certificate"},         category |-> "tls_failure"],
       [words |-> {"host key"},                          category |-> "ssh_host_key_failure"],
       [words |-> {"algorithm", "cipher"},               category |-> "ssh_algorithm_failure"],
       [words |-> {"auth", "credentials", "forbidden"},  category |-> "auth_failure"],
       [words |-> {"access denied", "permission denied"}, category |-> "access_denied"],
       [words |-> {"endpoint", "region"},                category |-> "endpoint_region_mismatch"],
       [words |-> {"remote 4xx", "status 4"},            category |-> "remote_4xx"],
       [words |-> {"remote 5xx", "status 5"},            category |-> "remote_5xx"],
       [words |-> {"connection", "network"},             category |-> "network"] >>

Words     == UNION {Rules[i].words : i \in DOMAIN Rules}
Transport == {"http", "s3", "s3_compat", "sftp"}

Matching(words) == {i \in DOMAIN Rules : Rules[i].words \cap words # {}}

\* A category of the error's own goes first, then the first rule that matches.
Classify(error, transport) ==
    IF error.category # "none" THEN error.category
    ELSE IF Matching(error.words) = {}
         THEN IF transport \in {"s3", "s3_compat"} THEN "transient_service_failure"
              ELSE "network"
         ELSE Rules[CHOOSE i \in Matching(error.words) :
                       \A j \in Matching(error.words) : i <= j].category

IsRetryable(error, transport) == Classify(error, transport) \in RetryableCategory

\* mark_transport_error: an error of an HTTP status has a category of its own.
Marked(category) == [category |-> category, words |-> {}]
=============================================================================
