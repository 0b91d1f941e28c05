SPECIFICATION Spec
\* A list of up to seven entries in an array that starts with two slots and grows
\* by two: it stretches three times, and remove() meets odd and even lengths,
\* present and absent tickers, first, middle and last positions.
CONSTANTS
    Tickers = {t1, t2}
    Uninit = Uninit
    Capacity = 2
    By = 2
    MaxCount = 7
INVARIANTS
    TypeOK
    LoopInv
PROPERTY Implements
