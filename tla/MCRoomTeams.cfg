\* Three seats and two places: one user alone may choose the number of teams.
CONSTANTS
    Guests = {0, 1, 2}
    Columns = 2
    MaxUsers = 3
SPECIFICATION SpecRoom
INVARIANT SomeTeam
