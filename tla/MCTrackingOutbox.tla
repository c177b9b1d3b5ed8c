-------------------------- MODULE MCTrackingOutbox --------------------------
(* Two targets: due at once, deferred, or refused when built.              *)
EXTENDS TrackingOutbox, TLC

CONSTANTS m, t

Mode(x, y) == [d \in Targets |-> IF d = m THEN x ELSE y]
PurchaseCaptures ==
  { [trigger |-> "instant", mode |-> Mode("instant", "instant"), refused |-> {}],
    [trigger |-> "instant", mode |-> Mode("instant", "validated"), refused |-> {}],
    [trigger |-> "validated", mode |-> Mode("validated", "validated"), refused |-> {t}] }
=============================================================================
