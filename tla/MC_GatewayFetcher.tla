-------------------------- MODULE MC_GatewayFetcher --------------------------
(* GatewayFetcher for TLC; the bounds are given in the cfg files.         *)
EXTENDS GatewayFetcher
====
