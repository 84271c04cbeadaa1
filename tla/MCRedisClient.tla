----------------------------- MODULE MCRedisClient -----------------------------
(* A small instance of RedisClient for TLC.                                *)
EXTENDS RedisClient

CONSTANTS c1, c2, h1

TwoCalls == {c1, c2}
OneProbe == {h1}
================================================================================
