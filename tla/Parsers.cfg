SPECIFICATION Spec
\* A text ends; nothing more is fed to its parser.
CHECK_DEADLOCK FALSE
INVARIANTS TypeOK TokensExact FinishSeen
