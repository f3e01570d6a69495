----------------------------- MODULE MCToolGate -----------------------------
(* Two calls of two users of a tenant, one of them a manager, and a quota   *)
(* of one call in two ticks.                                                *)
EXTENDS ToolGate

CONSTANTS c1, c2, u1, u2, j1, j2, t1

MCOwner == [j \in {j1, j2} |-> IF j = j1 THEN u1 ELSE u2]

MCMoving == {<<u1, t1>>}

Request(tool, jwt, user, manager, tenant) ==
  [tool |-> tool, bearer |-> Nothing, jwt |-> jwt, user |-> user,
   manager |-> manager, tenant |-> tenant]

MCInputs ==
  { Request("review", j1, u1, Nothing, t1),    \* project_review
    Request("review", j2, u2, Nothing, t1),
    Request("review", j2, u1, Nothing, t1),    \* of another's delivery
    Request("author", j1, Nothing, j1, t1),
    Request("save", j1, Nothing, j1, Nothing),   \* by the manager
    Request("save", j2, Nothing, j2, Nothing),   \* by a user who is none
    Request("save", j2, Nothing, j1, Nothing),   \* with another's manager_jwt
    Request("save", j2, Nothing, Nothing, Nothing),
    [Request("health", Nothing, Nothing, Nothing, Nothing)
       EXCEPT !.bearer = "token"] }
=============================================================================
