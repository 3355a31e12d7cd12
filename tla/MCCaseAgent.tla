----------------------------- MODULE MCCaseAgent -----------------------------
EXTENDS CaseAgent, TLC

CONSTANTS r1, r2, p1, p2

MCProcess == (r1 :> p1) @@ (r2 :> p2)
MCResponses ==
  {<<>>, <<"check">>, <<"declare_done", "check">>,
   <<"write_case_note", "request_clarification_email">>}
===============================================================================
