SPECIFICATION Spec
PROPERTY VerdictsTrue
