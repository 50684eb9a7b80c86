------------------------ MODULE MCPipelineSupervisor ------------------------
(* A small instance of PipelineSupervisor for TLC: the cfg file bounds the  *)
(* calling threads, the scheduler threads and the changes of the setting.   *)
EXTENDS PipelineSupervisor

=============================================================================
