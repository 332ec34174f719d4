--------------------------- MODULE MCWhisperServer ---------------------------
EXTENDS WhisperServer

CONSTANTS base, turbo, home, gone

\* `home` is a configured path that starts with `~` and stands for `base`.
MCExpand == [m \in Models |-> IF m = home THEN base ELSE m]

Bundled(m) == [model |-> m, mode |-> "bundled"]

\* The model, a model whose file is missing, and a server of the user's own.
MCSettings == {Bundled(base), Bundled(gone), [model |-> base, mode |-> "external"]}
\* A path that needs its expansion.
MCTilde == {Bundled(home)}
==============================================================================
