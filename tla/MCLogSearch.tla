---------------------------- MODULE MCLogSearch ----------------------------
EXTENDS LogSearch
Hit(time) == [time |-> time, hit |-> TRUE]
MCContents ==
    {<<[time |-> 1, hit |-> FALSE]>>, <<Hit(1)>>, <<Hit(2)>>, <<Hit(1), Hit(2)>>,
     <<Hit(2), Hit(2), [time |-> 2, hit |-> FALSE], Hit(2)>>}
=============================================================================
