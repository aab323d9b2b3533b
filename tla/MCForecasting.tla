---------------------------- MODULE MCForecasting ----------------------------
(* An instance of Forecasting for TLC. *)
EXTENDS Forecasting

\* No limit, and limits the forecasts come to lie on both sides of.
MCBudget == {[limit |-> l, thresholds |-> {50, 100}] : l \in {0, 2, 6}}
=============================================================================
