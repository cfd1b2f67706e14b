\* A refresh under way while the password is changed.
SPECIFICATION SessionsSpec
CONSTANTS
    Operators = {"ravi"}
    Counters = {"c1"}
    Calls = {"a", "b"}
    MaxTokens = 3
    MaxPasswords = 2
    LOGIN_BUDGET = 1
INVARIANT EndedSessionsStayEnded
CHECK_DEADLOCK FALSE
