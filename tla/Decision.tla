------------------------------- MODULE Decision -------------------------------
(***************************************************************************)
(* How the decision engine turns a risk score into an action,              *)
(* src/pkg/decision/engine.go, and how a score names its zone,             *)
(* src/pkg/risk/engine.go.  Thresholds are whole points; a score is a      *)
(* fraction of them, Point units to the point.                             *)
(***************************************************************************)
EXTENDS Integers

CONSTANTS Point,         \* units of a score in one point of a threshold
          DefaultGreen,  \* 39
          DefaultYellow  \* 69

ASSUME PointAssumption == Point \in Nat \ {0}
ASSUME DefaultsAssumption == /\ DefaultGreen \in Nat \ {0} /\ DefaultYellow \in Nat
                             /\ DefaultGreen < DefaultYellow

ThresholdConfig == [green : Int, yellow : Int]

Ordered(t) == t.green < t.yellow

DefaultThresholds == [green |-> DefaultGreen, yellow |-> DefaultYellow]

(* A threshold that was not given takes its default.                       *)
Filled(cfg) == IF cfg.green > 0 THEN cfg
               ELSE IF cfg.yellow > 0 THEN [cfg EXCEPT !.green = DefaultGreen]
               ELSE DefaultThresholds

NewEngine(cfg) == IF Ordered(Filled(cfg)) THEN Filled(cfg)
                  ELSE [Filled(cfg) EXCEPT !.yellow = DefaultYellow]

(* SIGHUP replaces the thresholds only by positive ones in order.          *)
Accepts(cfg) == cfg.green > 0 /\ cfg.yellow > 0 /\ Ordered(cfg)

(* A tier ends just below the next whole point: 39.9 is green, 40 is not.  *)
Within(score, max) == score < Point * (max + 1)

Evaluate(score, t) == IF Within(score, t.green)       THEN "ALLOW_AND_LOG"
                      ELSE IF Within(score, t.yellow) THEN "LOG_AND_ALERT"
                      ELSE "AUTO_CONTAINMENT"

(* RiskScore.Zone is handed the two thresholds one by one.                 *)
Zone_Inclusive(score, greenMax, yellowMax) == IF score <= Point * greenMax       THEN "GREEN"
                                              ELSE IF score <= Point * yellowMax THEN "YELLOW"
                                              ELSE "RED"

Zone(score, greenMax, yellowMax) == IF Within(score, greenMax)       THEN "GREEN"
                                    ELSE IF Within(score, yellowMax) THEN "YELLOW"
                                    ELSE "RED"

(* The zone a decision belongs to.                                         *)
ZoneOf == [ALLOW_AND_LOG |-> "GREEN", LOG_AND_ALERT |-> "YELLOW",
           AUTO_CONTAINMENT |-> "RED"]
=============================================================================
