--------------------------- MODULE MCRegistration ---------------------------
EXTENDS Registration, TLC

CONSTANTS r1, r2, v1, v2, v3, e1

MCRequests == {r1, r2}
MCValues   == {v1, v2, v3}
MCDetails  == {e1}
MCColumns  == <<"student_mail", "student_rollno">>   \* reg_form
MCMailOnly == <<"mail">>                             \* custom_form
\* As a roll number v3 is v1 with a fraction; mails are stored as they are.
AsGiven    == [v \in MCValues |-> v]
MCStored   == <<AsGiven, [AsGiven EXCEPT ![v3] = v1]>>
MCAsGiven  == <<AsGiven>>
Symmetric  == Permutations(MCRequests)
=============================================================================
