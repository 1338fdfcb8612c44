\* One client: connecting and disconnecting again and again, three background
\* tasks, two tasks of the user, a connection that may be lost at any time.
SPECIFICATION FairSpec
PROPERTIES
    LateAnswersAreHarmless
    BackgroundEnds
    LossIsNoticed
    RequestsEnd
