--------------------------- MODULE MCChildProcesses ---------------------------
EXTENDS ChildProcesses

Program(chunks, exit, helper) == [chunks |-> chunks, exit |-> exit, helper |-> helper]

MCPrograms ==
  {Program(0, "other", "ends"), Program(3, "zero", "none"), Program(2, "never", "none"),
   Program(1, "zero", "stays")}
=============================================================================
