----------------------------- MODULE AuditLines -----------------------------
(* What the lines of audit files say, for the modules about those files.   *)

CONSTANTS
    Lines,      \* what lines say, without their chain
    NoLine      \* no line, or what one says that does not parse

ASSUME NoLineAssumption == NoLine \notin Lines
=============================================================================
