---------------------------- MODULE RateLimiterMC ----------------------------
(* Instances of RateLimiter for TLC: a user with two devices, one at home  *)
(* and one on the road, and two limiters.                                  *)
EXTENDS RateLimiter

CONSTANTS ann, home, road, laptop, phone

Devices == {laptop, phone}
RoutesOfRouter == {"chat", "chat-jobs", "login"}
ChatAndLogin == {"chat", "login"}
SharedChat == [r \in RoutesOfRouter |-> IF r = "login" THEN "login" ELSE "chat"]
ByAddress == {"login"}
OneUser == [c \in Devices |-> ann]
TwoPlaces == [c \in Devices |-> IF c = laptop THEN home ELSE road]
Limits == [l \in ChatAndLogin |-> IF l = "chat" THEN 2 ELSE 1]
Windows == [l \in ChatAndLogin |-> IF l = "chat" THEN 3 ELSE 2]
=============================================================================
