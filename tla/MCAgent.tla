------------------------------ MODULE MCAgent ------------------------------
(* Two models of one account, one WebSocket and one HTTP, two settings.   *)
EXTENDS Agent

Config(backend, tools, params) ==
  [backend |-> backend, system |-> "system", tools |-> tools, params |-> params]

MCFirst == Config("ws", "tools", "low")

MCConfigs == {MCFirst, Config("ws", "tools", "high"), Config("chat", "fewer", "low")}

MCRetries == [user |-> 1, extension |-> 0]
=============================================================================
