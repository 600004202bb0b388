-------------------------- MODULE MCAlertDelivery --------------------------
(* A small instance of AlertDelivery for TLC.                              *)
EXTENDS AlertDelivery, TLC
CONSTANTS i1, i2

MCConfigs == {"smtp", "mock", "unset"}
MCSmtpOnly == {"smtp"}
MCSymmetry == Permutations({i1, i2})

\* retry_delay against its plain definition, for all small settings that
\* validate_alert_retry_intervals accepts, across powers of two.
ASSUME SaturationNeverShows ==
    \A maximum \in 1 .. 17 : \A initial \in 1 .. maximum, attempt \in 1 .. 9 :
        BackoffDelay(initial, maximum, attempt)
            = Least(initial * 2^(attempt - 1), maximum)
=============================================================================
