-------------------------------- MODULE Services --------------------------------
(***************************************************************************)
(* The parts of the server that keep state between requests, or within     *)
(* one, and are not on the way of every chat: the MCP gateway, the rate    *)
(* limiter, the few-shot pool, the login with WeChat and the execution of  *)
(* workflows.  They have no state in common, so that a behaviour is of one *)
(* of them, chosen from Parts: the states are the sum of theirs and not    *)
(* the product.                                                            *)
(***************************************************************************)
EXTENDS McpGateway, RateLimiter, FewShotPool, WeChatLogin, WorkflowExecutor

CONSTANT Parts

VARIABLE part  \* the one this behaviour is of

servicesVars ==
    <<part, vars, rateVars, poolVars, loginVars, executorVars>>

ServicesTypeOK ==
    /\ part \in Parts
    /\ TypeOK /\ RateLimiterTypeOK /\ FewShotPoolTypeOK
    /\ WeChatLoginTypeOK /\ WorkflowExecutorTypeOK

\* Without the executor there is no workflow.
ServicesInit ==
    /\ part \in Parts
    /\ Init /\ RateLimiterInit /\ FewShotPoolInit /\ WeChatLoginInit
    /\ WorkflowExecutorInit
    /\ part # "executor" => kinds = <<>> /\ edges = {}

\* The other parts stay as they are.
OthersRest ==
    /\ UNCHANGED part
    /\ part # "mcp"      => UNCHANGED vars
    /\ part # "rate"     => UNCHANGED rateVars
    /\ part # "pool"     => UNCHANGED poolVars
    /\ part # "login"    => UNCHANGED loginVars
    /\ part # "executor" => UNCHANGED executorVars

ServicesNext ==
    \/ part = "mcp" /\ Next /\ OthersRest
    \/ part = "rate" /\ RateLimiterNext /\ OthersRest
    \/ part = "pool" /\ FewShotPoolNext /\ OthersRest
    \/ part = "login" /\ WeChatLoginNext /\ OthersRest
    \/ part = "executor" /\ WorkflowExecutorNext /\ OthersRest

\* That of the gateway's requests, and a workflow is executed without a pause.
ServicesFairness ==
    /\ \A r \in Requests : WF_vars(part = "mcp" /\ Work(r))
    /\ WF_executorVars(part = "executor" /\ WorkflowExecutorNext)

ServicesSpec == ServicesInit /\ [][ServicesNext]_servicesVars /\ ServicesFairness
-----------------------------------------------------------------------------
(* Every request to a connector ends, and so does every workflow, whatever *)
(* cycles its edges make.                                                  *)
ServicesEnd == TaskEnds /\ (part = "executor" ~> status # "running")
===============================================================================
