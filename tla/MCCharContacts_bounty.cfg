CONSTANTS
    Chars = {1, 2}
    Standings = {5, 10}
    Amounts <- MCAmounts
    StartBalance = 2
    MaxBounties = 2

SPECIFICATION Spec

INVARIANT BountiesPositive
