---------------------------- MODULE MCLlmRouting ----------------------------
EXTENDS LlmRouting

CONSTANTS t1, t2, p1, p2

Same(name) == [t \in Tasks |-> name]
Endpoints == [c \in Clients |-> IF c = "anthropic" THEN "private" ELSE "none"]
Env(task, global, outlines, production) ==
  [task |-> task, global |-> global, outlines |-> outlines, production |-> production,
   keys |-> {"anthropic", "openai"}, endpoint |-> Endpoints, azure |-> FALSE]
(* Claude in production, but for a recipe client that may not be built; a  *)
(* sandbox of several clients, one of them without a key.                  *)
MCConfigs ==
  { Env([Same("unset") EXCEPT !["shadow"] = "outlines", !["recipe"] = "ollama"], "anthropic", FALSE, TRUE),
    Env([Same("unset") EXCEPT !["recipe"] = "openai", !["email"] = "huggingface", !["shadow"] = "fallback"],
        "unset", TRUE, FALSE) }

Event(tenant, verdict, det) ==
  [tenant |-> tenant, explain |-> FALSE, impact |-> TRUE, customer |-> FALSE,
   verdict |-> verdict, det |-> det]
MCEvents ==
  { Event(t1, "GREEN", "A"),
    [Event(t2, "GREEN", "MASS") EXCEPT !.explain = TRUE, !.customer = TRUE] }
===============================================================================
