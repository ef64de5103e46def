SPECIFICATION Spec
CONSTANTS
    Counters = 2
    Second = 2
    Skew <- MCSkew
    Plans <- DriftPlans
INVARIANT StateReflectsReadModels
