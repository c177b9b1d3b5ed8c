-------------------------- MODULE MCCourierParcel --------------------------
(* One booking with Pathao, one with Steadfast.                            *)
EXTENDS CourierParcel, TLC

CONSTANTS pathao, steadfast
=============================================================================
