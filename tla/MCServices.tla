------------------------------- MODULE MCServices -------------------------------
(***************************************************************************)
(* The services around the bridge, on small instances.  They share no      *)
(* state and are checked one after the other in one run: service says      *)
(* which of them a behaviour is about, and the others stay as they start.  *)
(***************************************************************************)
EXTENDS Supervisor, Instances, AgentRun, LlmSettings, Download, Updater, McpAgent, Web, Store

VARIABLE service

servicesVars == <<service, supVars, instVars, agentVars, llmVars, getVars, updVars,
                  mcpVars, webVars, storeVars>>

\* A new conversation; one with a system message and a tool call in the past;
\* one that is continued in the middle of a turn.
Past == AgentCall(9, 1, "plain")
Fresh == <<Text("user")>>
MCHistories ==
  {Fresh,
   <<Text("system"), Text("user"), Turn(<<Past>>), Answer(Past, "output"), Turn(<<>>), Text("user")>>,
   <<Text("user"), Turn(<<>>), Text("system"), Text("user"), Turn(<<Past>>), Answer(Past, "output")>>}

Services == {"supervisor", "instances", "agent", "settings", "download", "updater", "mcp", "web", "store"}

\* A component that is not looked at starts in one way only.
ServicesInit ==
  /\ service \in Services
  /\ SupInit /\ InstInit /\ AgentInit /\ LlmInit /\ DownloadInit /\ UpdInit
  /\ McpInit /\ WebInit /\ StoreInit
  /\ service # "agent" => convo = Fresh
  /\ service # "settings" => ~frozen
  /\ service # "download" => spec.size /\ spec.digest
  /\ service # "updater" => ~mac

ServicesNext ==
  \/ /\ service = "supervisor" /\ SupNext
     /\ UNCHANGED <<service, instVars, agentVars, llmVars, getVars, updVars, mcpVars, webVars, storeVars>>
  \/ /\ service = "instances" /\ InstNext
     /\ UNCHANGED <<service, supVars, agentVars, llmVars, getVars, updVars, mcpVars, webVars, storeVars>>
  \/ /\ service = "agent" /\ AgentNext
     /\ UNCHANGED <<service, supVars, instVars, llmVars, getVars, updVars, mcpVars, webVars, storeVars>>
  \/ /\ service = "settings" /\ LlmNext
     /\ UNCHANGED <<service, supVars, instVars, agentVars, getVars, updVars, mcpVars, webVars, storeVars>>
  \/ /\ service = "download" /\ DownloadNext
     /\ UNCHANGED <<service, supVars, instVars, agentVars, llmVars, updVars, mcpVars, webVars, storeVars>>
  \/ /\ service = "updater" /\ UpdNext
     /\ UNCHANGED <<service, supVars, instVars, agentVars, llmVars, getVars, mcpVars, webVars, storeVars>>
  \/ /\ service = "mcp" /\ McpNext
     /\ UNCHANGED <<service, supVars, instVars, agentVars, llmVars, getVars, updVars, webVars, storeVars>>
  \/ /\ service = "web" /\ WebNext
     /\ UNCHANGED <<service, supVars, instVars, agentVars, llmVars, getVars, updVars, mcpVars, storeVars>>
  \/ /\ service = "store" /\ StoreNext
     /\ UNCHANGED <<service, supVars, instVars, agentVars, llmVars, getVars, updVars, mcpVars, webVars>>

ServicesSpec == ServicesInit /\ [][ServicesNext]_servicesVars

\* Every variable of every service keeps to its range: among them the number
\* of restarts of a child, the attempts of a request and of a download, and
\* the length of the page's queue, each of which the code bounds by a count.
ServicesTypeOK ==
  /\ service \in Services
  /\ SupTypeOK /\ InstTypeOK /\ AgentTypeOK /\ LlmTypeOK /\ DownloadTypeOK
  /\ UpdTypeOK /\ McpTypeOK /\ WebTypeOK /\ StoreTypeOK
=================================================================================
