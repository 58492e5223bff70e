SPECIFICATION FairSpec
CONSTANTS
    s1 = s1  s2 = s2  k1 = k1  k2 = k2  None = None
    st1 = st1  pr1 = pr1  pr2 = pr2  en1 = en1  st2 = st2  tl1 = tl1  co1 = co1  ss2 = ss2  sp2 = sp2  tu1 = tu1
    Events <- MCEvents  Sessions = {s1, s2}  Keys = {k1, k2}
    TypeOf <- MCTypeOf  SessionOf <- MCSessionOf  KeyOf <- MCKeyOf  ParentOf <- MCParentOf  StripeOf <- MCStripeOf
    ListLimit = 4
    Casts <- MCCasts
INVARIANTS NativeInvariant EndedArchived AnsweredIsRecorded
PROPERTIES EventsSettle
CHECK_DEADLOCK FALSE
