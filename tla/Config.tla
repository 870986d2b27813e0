------------------------------- MODULE Config -------------------------------
(***************************************************************************)
(* The notifier's configuration (internal/config/config.go).  A raw value  *)
(* of an environment variable is blank, a decimal number, a duration with  *)
(* its unit (here in milliseconds), or some other text.                    *)
(***************************************************************************)
EXTENDS Integers

Blank == [kind |-> "blank", value |-> 0]
Number(n) == [kind |-> "number", value |-> n]
Duration(ms) == [kind |-> "duration", value |-> ms]
Text == [kind |-> "text", value |-> 0]

RawValue == [kind : {"blank", "number", "duration", "text"}, value : Int]

NotifierDefaults ==
    [workerCount               |-> Number(4),
     maxRetryAttempts          |-> Number(3),
     requestTimeout            |-> Duration(5000),
     initialRetryDelay         |-> Duration(1000),
     queueClaimBatchSize       |-> Number(32),
     queuePollInterval         |-> Duration(250),
     schedulerBufferMultiplier |-> Number(4),
     scheduledQueueLimitFactor |-> Number(10),
     metricsReportInterval     |-> Duration(2000),
     shutdownTimeout           |-> Duration(5000)]

\* A variable that is set to white space counts as not set.
ReadEnvironment(environment, name, default) ==
    IF name \notin DOMAIN environment \/ environment[name] = Blank
      THEN default ELSE environment[name]

\* strconv.Atoi and time.ParseDuration; "0" needs no unit.
Parses(raw, kind) ==
    raw.kind = kind \/ (kind = "duration" /\ raw = Number(0))

(***************************************************************************)
(* LoadNotifierConfig returns a configuration or an error: here, a set of  *)
(* at most one configuration.  No value is checked for its range.          *)
(***************************************************************************)
LoadNotifierConfig(environment) ==
    LET raw == [name \in DOMAIN NotifierDefaults |->
                   ReadEnvironment(environment, name, NotifierDefaults[name])]
    IN  IF /\ \A name \in DOMAIN raw : Parses(raw[name], NotifierDefaults[name].kind)
           /\ ReadEnvironment(environment, "postgresDSN", Blank) # Blank
          THEN {[name \in DOMAIN raw |-> raw[name].value]}
          ELSE {}

\* time.NewTicker panics on an interval that is not positive, make on a negative size.
StartsUp(config) ==
    /\ config.metricsReportInterval > 0
    /\ config.queuePollInterval > 0
    /\ config.workerCount * config.schedulerBufferMultiplier >= 0
=============================================================================
