\* otel.py:153: the variable of .env.default.
SPECIFICATION Spec

CONSTANTS
    None = None
    Environment <- LocalEnvironments
    Requests <- Simple

INVARIANT NoHandlerWhenDisabled
